---- MODULE Spec2Model ----
(***************************************************************************)
(* Model of the errors package of protoc-gen-go-zero-errors                *)
(* (src/errors/errors.go): the Error value, its trace identifier, the      *)
(* copy-on-write derivations and the conversion to and from a gRPC status. *)
(*                                                                         *)
(* Go strings that the code takes apart (identifiers and the records they  *)
(* encode) are sequences of byte values; strings the code only copies      *)
(* (reason, message, metadata keys) are TLA+ strings.                      *)
(***************************************************************************)
EXTENDS Integers, Sequences, FiniteSets, TLC

\* ------------------------------------------------------------------------
\* Bytes and text helpers
\* ------------------------------------------------------------------------

Colon == 58
At == 64
Dot == 46
Slash == 47
Pad == 61
Minus == 45

\* "unknown"
Unknown == <<117, 110, 107, 110, 111, 119, 110>>
\* "fallback"
Fallback == <<102, 97, 108, 108, 98, 97, 99, 107>>

\* strings.LastIndex(s, c) for a one-byte separator, 0-based, -1 if absent
RECURSIVE LastIndexFrom(_, _, _)
LastIndexFrom(s, c, i) ==
    IF i = 0 THEN -1
    ELSE IF s[i] = c THEN i - 1
    ELSE LastIndexFrom(s, c, i - 1)

LastIndex(s, c) == LastIndexFrom(s, c, Len(s))

findLastDot(s) == LastIndex(s, Dot)

\* filepath.Base on a slash-separated, non-empty path without trailing slash
Base(path) ==
    LET i == LastIndex(path, Slash)
    IN IF i < 0 THEN path ELSE SubSeq(path, i + 2, Len(path))

\* s[lo:hi] of Go, 0-based half-open
Slice(s, lo, hi) == SubSeq(s, lo + 1, hi)

\* strconv.Itoa / FormatInt(_, 10) / FormatUint(_, 10)
RECURSIVE ItoaNat(_)
ItoaNat(n) ==
    IF n < 10 THEN <<48 + n>>
    ELSE Append(ItoaNat(n \div 10), 48 + (n % 10))

Itoa(n) == IF n < 0 THEN <<Minus>> \o ItoaNat(0 - n) ELSE ItoaNat(n)

\* fmt.Sprintf("%x", buf) for a byte slice: two lower-case hex digits a byte
HexDigit(d) == IF d < 10 THEN 48 + d ELSE 87 + d

RECURSIVE HexBytes(_)
HexBytes(buf) ==
    IF buf = <<>> THEN <<>>
    ELSE <<HexDigit(buf[1] \div 16), HexDigit(buf[1] % 16)>> \o HexBytes(Tail(buf))

\* fmt.Sprintf("%x", n) for a non-negative integer: no leading zeros
RECURSIVE HexNat(_)
HexNat(n) ==
    IF n < 16 THEN <<HexDigit(n)>>
    ELSE Append(HexNat(n \div 16), HexDigit(n % 16))

\* ------------------------------------------------------------------------
\* base64.StdEncoding
\* ------------------------------------------------------------------------

\* the byte of the i-th symbol (0..63) of the standard alphabet
B64Char(i) ==
    IF i < 26 THEN 65 + i
    ELSE IF i < 52 THEN 97 + (i - 26)
    ELSE IF i < 62 THEN 48 + (i - 52)
    ELSE IF i = 62 THEN 43
    ELSE 47

\* the symbol value of a byte, or -1 when the byte is not in the alphabet
B64Val(b) ==
    IF b >= 65 /\ b <= 90 THEN b - 65
    ELSE IF b >= 97 /\ b <= 122 THEN b - 97 + 26
    ELSE IF b >= 48 /\ b <= 57 THEN b - 48 + 52
    ELSE IF b = 43 THEN 62
    ELSE IF b = 47 THEN 63
    ELSE -1

RECURSIVE EncodeToString(_)
EncodeToString(src) ==
    IF src = <<>> THEN <<>>
    ELSE IF Len(src) = 1 THEN
        <<B64Char(src[1] \div 4), B64Char((src[1] % 4) * 16), Pad, Pad>>
    ELSE IF Len(src) = 2 THEN
        <<B64Char(src[1] \div 4),
          B64Char((src[1] % 4) * 16 + (src[2] \div 16)),
          B64Char((src[2] % 16) * 4), Pad>>
    ELSE
        <<B64Char(src[1] \div 4),
          B64Char((src[1] % 4) * 16 + (src[2] \div 16)),
          B64Char((src[2] % 16) * 4 + (src[3] \div 64)),
          B64Char(src[3] % 64)>> \o EncodeToString(SubSeq(src, 4, Len(src)))

\* DecodeString: [ok, bytes]. \r and \n are skipped; padding is mandatory and
\* only allowed in the last quantum; trailing bits are not checked.
StripNewlines(s) == SelectSeq(s, LAMBDA b : b # 10 /\ b # 13)

RECURSIVE DecodeQuanta(_)
DecodeQuanta(s) ==
    IF s = <<>> THEN [ok |-> TRUE, bytes |-> <<>>]
    ELSE IF Len(s) < 4 THEN [ok |-> FALSE, bytes |-> <<>>]
    ELSE
        LET a == B64Val(s[1])
            b == B64Val(s[2])
            c == B64Val(s[3])
            d == B64Val(s[4])
            last == Len(s) = 4
        IN IF a < 0 \/ b < 0 THEN [ok |-> FALSE, bytes |-> <<>>]
           ELSE IF s[3] = Pad THEN
               IF last /\ s[4] = Pad
               THEN [ok |-> TRUE, bytes |-> <<a * 4 + (b \div 16)>>]
               ELSE [ok |-> FALSE, bytes |-> <<>>]
           ELSE IF c < 0 THEN [ok |-> FALSE, bytes |-> <<>>]
           ELSE IF s[4] = Pad THEN
               IF last
               THEN [ok |-> TRUE,
                     bytes |-> <<a * 4 + (b \div 16), (b % 16) * 16 + (c \div 4)>>]
               ELSE [ok |-> FALSE, bytes |-> <<>>]
           ELSE IF d < 0 THEN [ok |-> FALSE, bytes |-> <<>>]
           ELSE
               LET rest == DecodeQuanta(SubSeq(s, 5, Len(s)))
               IN [ok |-> rest.ok,
                   bytes |-> <<a * 4 + (b \div 16), (b % 16) * 16 + (c \div 4),
                               (c % 4) * 64 + d>> \o rest.bytes]

DecodeString(s) == DecodeQuanta(StripNewlines(s))

\* ------------------------------------------------------------------------
\* Call stacks: a frame is the function's full name, its file and the line
\* of the call in progress; a stack lists frames innermost first.
\* ------------------------------------------------------------------------

\* "github.com/honeybbq/protoc-gen-go-zero-errors/errors."
PkgPrefix ==
    <<103, 105, 116, 104, 117, 98, 46, 99, 111, 109, 47, 104, 111, 110, 101,
      121, 98, 98, 113, 47, 112, 114, 111, 116, 111, 99, 45, 103, 101, 110,
      45, 103, 111, 45, 122, 101, 114, 111, 45, 101, 114, 114, 111, 114, 115,
      47, 101, 114, 114, 111, 114, 115, 46>>

\* "/src/errors/errors.go"
PkgFile ==
    <<47, 115, 114, 99, 47, 101, 114, 114, 111, 114, 115, 47, 101, 114, 114,
      111, 114, 115, 46, 103, 111>>

PkgFrame(name, line) == [fn |-> PkgPrefix \o name, file |-> PkgFile, line |-> line]

FrameInternal ==
    PkgFrame(<<103, 101, 110, 101, 114, 97, 116, 101, 69, 114, 114, 111, 114,
               73, 68, 73, 110, 116, 101, 114, 110, 97, 108>>, 140)
FrameTry ==
    PkgFrame(<<116, 114, 121, 71, 101, 110, 101, 114, 97, 116, 101, 69, 114,
               114, 111, 114, 73, 68>>, 133)
FrameGen ==
    PkgFrame(<<103, 101, 110, 101, 114, 97, 116, 101, 69, 114, 114, 111, 114,
               73, 68>>, 116)
FrameNew == PkgFrame(<<78, 101, 119>>, 375)
FrameNewf == PkgFrame(<<78, 101, 119, 102>>, 387)
FrameErrorf == PkgFrame(<<69, 114, 114, 111, 114, 102>>, 399)
\* "(*Error).GetID", "(*Error).GRPCStatus"
FrameGetID ==
    PkgFrame(<<40, 42, 69, 114, 114, 111, 114, 41, 46, 71, 101, 116, 73, 68>>, 338)
FrameGRPCStatus ==
    PkgFrame(<<40, 42, 69, 114, 114, 111, 114, 41, 46, 71, 82, 80, 67, 83, 116,
               97, 116, 117, 115>>, 347)
FrameFromError(line) == PkgFrame(<<70, 114, 111, 109, 69, 114, 114, 111, 114>>, line)
FrameID(line) == PkgFrame(<<73, 68>>, line)

\* the convenience constructors: name, line of the call of New, fixed code
ConvNames ==
    {"BadRequest", "Unauthorized", "Forbidden", "NotFound", "Conflict",
     "InternalServer", "ServiceUnavailable", "GatewayTimeout", "ClientClosed"}

ConvCode(c) ==
    CASE c = "BadRequest" -> 400
      [] c = "Unauthorized" -> 401
      [] c = "Forbidden" -> 403
      [] c = "NotFound" -> 404
      [] c = "Conflict" -> 409
      [] c = "InternalServer" -> 500
      [] c = "ServiceUnavailable" -> 503
      [] c = "GatewayTimeout" -> 504
      [] c = "ClientClosed" -> 499

FrameConv(c) ==
    CASE c = "BadRequest" ->
           PkgFrame(<<66, 97, 100, 82, 101, 113, 117, 101, 115, 116>>, 546)
      [] c = "Unauthorized" ->
           PkgFrame(<<85, 110, 97, 117, 116, 104, 111, 114, 105, 122, 101, 100>>, 551)
      [] c = "Forbidden" ->
           PkgFrame(<<70, 111, 114, 98, 105, 100, 100, 101, 110>>, 556)
      [] c = "NotFound" ->
           PkgFrame(<<78, 111, 116, 70, 111, 117, 110, 100>>, 561)
      [] c = "Conflict" ->
           PkgFrame(<<67, 111, 110, 102, 108, 105, 99, 116>>, 566)
      [] c = "InternalServer" ->
           PkgFrame(<<73, 110, 116, 101, 114, 110, 97, 108, 83, 101, 114, 118,
                      101, 114>>, 571)
      [] c = "ServiceUnavailable" ->
           PkgFrame(<<83, 101, 114, 118, 105, 99, 101, 85, 110, 97, 118, 97,
                      105, 108, 97, 98, 108, 101>>, 576)
      [] c = "GatewayTimeout" ->
           PkgFrame(<<71, 97, 116, 101, 119, 97, 121, 84, 105, 109, 101, 111,
                      117, 116>>, 581)
      [] c = "ClientClosed" ->
           PkgFrame(<<67, 108, 105, 101, 110, 116, 67, 108, 111, 115, 101, 100>>, 586)

\* Code and Reason call FromError at lines 516 and 525
FrameCode == PkgFrame(<<67, 111, 100, 101>>, 516)
FrameReason == PkgFrame(<<82, 101, 97, 115, 111, 110>>, 525)

\* IsBadRequest ... IsClientClosed call Code at lines 596, 602, ... 644, in
\* the order of the constructors at lines 546, 551, ... 586
FrameIs(c) ==
    PkgFrame(<<73, 115>> \o SubSeq(FrameConv(c).fn, Len(PkgPrefix) + 1,
                                   Len(FrameConv(c).fn)),
             596 + 6 * ((FrameConv(c).line - 546) \div 5))

\* the code outside the package that calls it: "main.handler" in
\* "/app/main.go", itself called from "main.main"
UserFrame(line) ==
    [fn |-> <<109, 97, 105, 110, 46, 104, 97, 110, 100, 108, 101, 114>>,
     file |-> <<47, 97, 112, 112, 47, 109, 97, 105, 110, 46, 103, 111>>,
     line |-> line]

MainFrame ==
    [fn |-> <<109, 97, 105, 110, 46, 109, 97, 105, 110>>,
     file |-> <<47, 97, 112, 112, 47, 109, 97, 105, 110, 46, 103, 111>>,
     line |-> 5]

UserStack(line) == <<UserFrame(line), MainFrame>>

\* ------------------------------------------------------------------------
\* Identifier generation.  env is what the process hands to one generation:
\*   ts      time.Now().UnixNano() read by the generator
\*   gid     the goroutine id of the caller
\*   pid     os.Getpid()
\*   rnd     the 4 bytes rand.Read delivers
\*   fnOk    runtime.FuncForPC finds the function
\*   gidOk   the goroutine header can be read
\*   randOk  rand.Read succeeds
\*   ts2     the time read by the random suffix's timestamp replacement
\* ------------------------------------------------------------------------

\* strconv.ParseUint(s, 10, 64) / ParseInt / Atoi on digit strings
IsDigit(b) == b >= 48 /\ b <= 57

AllDigits(s) == s # <<>> /\ \A i \in 1..Len(s) : IsDigit(s[i])

RECURSIVE DigitsVal(_)
DigitsVal(s) ==
    IF s = <<>> THEN 0
    ELSE DigitsVal(SubSeq(s, 1, Len(s) - 1)) * 10 + (s[Len(s)] - 48)

RECURSIVE StripZeros(_)
StripZeros(s) ==
    IF Len(s) > 1 /\ s[1] = 48 THEN StripZeros(Tail(s)) ELSE s

\* s <= t for digit strings without leading zeros
RECURSIVE DigitsLeq(_, _)
DigitsLeq(s, t) ==
    IF Len(s) # Len(t) THEN Len(s) < Len(t)
    ELSE IF s = <<>> THEN TRUE
    ELSE IF s[1] # t[1] THEN s[1] < t[1]
    ELSE DigitsLeq(Tail(s), Tail(t))

\* "18446744073709551615", "9223372036854775807", "9223372036854775808"
MaxUint64Digits ==
    <<49, 56, 52, 52, 54, 55, 52, 52, 48, 55, 51, 55, 48, 57, 53, 53, 49, 54, 49, 53>>
MaxInt64Digits ==
    <<57, 50, 50, 51, 51, 55, 50, 48, 51, 54, 56, 53, 52, 55, 55, 53, 56, 48, 55>>
MinInt64Digits ==
    <<57, 50, 50, 51, 51, 55, 50, 48, 51, 54, 56, 53, 52, 55, 55, 53, 56, 48, 56>>

ParseUint(s) ==
    IF AllDigits(s) /\ DigitsLeq(StripZeros(s), MaxUint64Digits)
    THEN [ok |-> TRUE, val |-> DigitsVal(s)]
    ELSE [ok |-> FALSE, val |-> 0]

ParseInt(s) ==
    LET signed == s # <<>> /\ (s[1] = 43 \/ s[1] = Minus)
        neg == s # <<>> /\ s[1] = Minus
        digits == IF signed THEN Tail(s) ELSE s
        limit == IF neg THEN MinInt64Digits ELSE MaxInt64Digits
    IN IF AllDigits(digits) /\ DigitsLeq(StripZeros(digits), limit)
       THEN [ok |-> TRUE,
             val |-> IF neg THEN 0 - DigitsVal(digits) ELSE DigitsVal(digits)]
       ELSE [ok |-> FALSE, val |-> 0]

Atoi(s) == ParseInt(s)

\* "goroutine " and " [running]:\n"
GoroutineWord == <<103, 111, 114, 111, 117, 116, 105, 110, 101, 32>>
RunningWord == <<32, 91, 114, 117, 110, 110, 105, 110, 103, 93, 58, 10>>

\* runtime.Stack(buf[:], false) with a 32-byte buffer
StackText(gid) ==
    LET full == GoroutineWord \o Itoa(gid) \o RunningWord \o FrameInternal.fn
    IN SubSeq(full, 1, IF Len(full) < 32 THEN Len(full) ELSE 32)

RECURSIVE ScanToSpace(_, _)
ScanToSpace(stack, end) ==
    IF end < Len(stack) /\ stack[end + 1] # 32
    THEN ScanToSpace(stack, end + 1)
    ELSE end

getGoroutineID(env) ==
    IF ~env.gidOk THEN 0
    ELSE
        LET stack == StackText(env.gid)
            start == 10
            end == ScanToSpace(stack, start)
            id == ParseUint(Slice(stack, start, end))
        IN IF start >= Len(stack) THEN 0
           ELSE IF end > start /\ id.ok THEN id.val
           ELSE 0

\* n & 0xFFFFFFFF for n >= 0, computed on 16-bit halves
Mask32(n) == ((n \div 65536) % 65536) * 65536 + (n % 65536)

generateRandomSuffix(env) ==
    IF ~env.randOk THEN HexNat(Mask32(env.ts2))
    ELSE HexBytes(env.rnd)

\* runtime.Caller(skip) seen from the innermost frame of stack
Caller(skip, stack) ==
    IF skip >= 0 /\ skip < Len(stack)
    THEN [ok |-> TRUE, frame |-> stack[skip + 1]]
    ELSE [ok |-> FALSE, frame |-> [fn |-> <<>>, file |-> <<>>, line |-> 0]]

DebugRecordGidFirst(funcName, filename, line, timestamp, goroutineID, pid, randomSuffix) ==
    funcName \o <<At>> \o filename \o <<Colon>> \o Itoa(line) \o <<Colon>>
    \o Itoa(goroutineID) \o <<Colon>> \o Itoa(timestamp) \o <<Colon>>
    \o Itoa(pid) \o <<Colon>> \o randomSuffix

\* the record "func@file:line:timestamp:gid:pid:random"
DebugRecord(funcName, filename, line, timestamp, goroutineID, pid, randomSuffix) ==
    funcName \o <<At>> \o filename \o <<Colon>> \o Itoa(line) \o <<Colon>>
    \o Itoa(timestamp) \o <<Colon>> \o Itoa(goroutineID) \o <<Colon>>
    \o Itoa(pid) \o <<Colon>> \o randomSuffix

generateErrorIDInternal(skip, callers, env) ==
    LET c == Caller(skip, <<FrameInternal>> \o callers)
        fullName == c.frame.fn
        lastDot == findLastDot(fullName)
        filename == IF ~c.ok THEN Unknown ELSE Base(c.frame.file)
        funcName ==
            IF ~c.ok THEN Unknown
            ELSE IF ~env.fnOk THEN Unknown
            ELSE IF lastDot >= 0 /\ lastDot < Len(fullName) - 1
                 THEN Slice(fullName, lastDot + 1, Len(fullName))
            ELSE fullName
        line == IF ~c.ok THEN 0 ELSE c.frame.line
    IN EncodeToString(DebugRecord(funcName, filename, line, env.ts,
                                  getGoroutineID(env), env.pid,
                                  generateRandomSuffix(env)))

tryGenerateErrorID(skip, callers, env) ==
    generateErrorIDInternal(skip, <<FrameTry>> \o callers, env)

\* "fallback:<timestamp>:<pid>:<random>"
generateFallbackErrorID(env) ==
    LET randomNum == env.rnd[1] * 16777216 + env.rnd[2] * 65536
                     + env.rnd[3] * 256 + env.rnd[4]
    IN EncodeToString(Fallback \o <<Colon>> \o Itoa(env.ts2) \o <<Colon>>
                      \o Itoa(env.pid) \o <<Colon>> \o Itoa(randomNum))

OrFallbackAlways(id, env) == generateFallbackErrorID(env)

\* the id of the attempt if there is one, else the fallback id
OrFallback(id, env) == IF id # <<>> THEN id ELSE generateFallbackErrorID(env)

generateErrorID(skip, callers, env) ==
    OrFallback(tryGenerateErrorID(skip + 1, <<FrameGen>> \o callers, env), env)

\* ------------------------------------------------------------------------
\* DecodeErrorID
\* ------------------------------------------------------------------------

\* strings.Split(s, ":")
RECURSIVE SplitFrom(_, _, _)
SplitFrom(s, i, cur) ==
    IF i > Len(s) THEN <<cur>>
    ELSE IF s[i] = Colon THEN <<cur>> \o SplitFrom(s, i + 1, <<>>)
    ELSE SplitFrom(s, i + 1, Append(cur, s[i]))

Split(s) == SplitFrom(s, 1, <<>>)

NoInfo ==
    [Function |-> <<>>, File |-> <<>>, Line |-> 0, Timestamp |-> 0,
     GoroutineID |-> 0, ProcessID |-> 0, RandomSuffix |-> <<>>,
     TimeFormatted |-> <<>>, Raw |-> <<>>]

InfoOfLastSuffix(raw, parts, atIndex, line, timestamp, gid, pid) ==
    [Function |-> IF atIndex >= 0 THEN Slice(parts[1], 0, atIndex)
                  ELSE Unknown,
     File |-> IF atIndex >= 0
              THEN Slice(parts[1], atIndex + 1, Len(parts[1]))
              ELSE parts[1],
     Line |-> IF line.ok THEN line.val ELSE 0,
     Timestamp |-> IF timestamp.ok THEN timestamp.val ELSE 0,
     TimeFormatted |-> IF timestamp.ok
                       THEN <<timestamp.val \div 1000000>> ELSE <<>>,
     GoroutineID |-> IF gid.ok THEN gid.val ELSE 0,
     ProcessID |-> IF pid.ok THEN pid.val ELSE 0,
     RandomSuffix |-> parts[Len(parts)],
     Raw |-> raw]

\* err is "none", "base64" (info is nil) or "format" (info holds only Raw).
\* TimeFormatted, a rendering with millisecond precision, is kept as the
\* millisecond count it renders, <<>> when it is not set.
\* the fields parsed from the parts of the record
InfoOf(raw, parts, atIndex, line, timestamp, gid, pid) ==
    [Function |-> IF atIndex >= 0 THEN Slice(parts[1], 0, atIndex)
                  ELSE Unknown,
     File |-> IF atIndex >= 0
              THEN Slice(parts[1], atIndex + 1, Len(parts[1]))
              ELSE parts[1],
     Line |-> IF line.ok THEN line.val ELSE 0,
     Timestamp |-> IF timestamp.ok THEN timestamp.val ELSE 0,
     TimeFormatted |-> IF timestamp.ok
                       THEN <<timestamp.val \div 1000000>> ELSE <<>>,
     GoroutineID |-> IF gid.ok THEN gid.val ELSE 0,
     ProcessID |-> IF pid.ok THEN pid.val ELSE 0,
     RandomSuffix |-> parts[6],
     Raw |-> raw]

ParseRecordSeven(raw, parts) ==
    IF Len(parts) < 7
    THEN [err |-> "format", nil |-> FALSE, info |-> [NoInfo EXCEPT !.Raw = raw]]
    ELSE [err |-> "none", nil |-> FALSE,
          info |-> InfoOf(raw, parts, LastIndex(parts[1], At), Atoi(parts[2]),
                          ParseInt(parts[3]), ParseUint(parts[4]),
                          Atoi(parts[5]))]

\* from the split of the record on
ParseRecord(raw, parts) ==
    IF Len(parts) < 6
    THEN [err |-> "format", nil |-> FALSE, info |-> [NoInfo EXCEPT !.Raw = raw]]
    ELSE [err |-> "none", nil |-> FALSE,
          info |-> InfoOf(raw, parts, LastIndex(parts[1], At), Atoi(parts[2]),
                          ParseInt(parts[3]), ParseUint(parts[4]),
                          Atoi(parts[5]))]

\* from the result of base64.StdEncoding.DecodeString on
ParseDecoded(decoded) ==
    IF ~decoded.ok THEN [err |-> "base64", nil |-> TRUE, info |-> NoInfo]
    ELSE ParseRecord(decoded.bytes, Split(decoded.bytes))

DecodeErrorID(encodedID) == ParseDecoded(DecodeString(encodedID))

\* ------------------------------------------------------------------------
\* Code translation
\* ------------------------------------------------------------------------

OK == 0
Canceled == 1
UnknownGrpc == 2
InvalidArgument == 3
DeadlineExceeded == 4
NotFoundGrpc == 5
AlreadyExists == 6
PermissionDenied == 7
ResourceExhausted == 8
FailedPrecondition == 9
Aborted == 10
OutOfRange == 11
Unimplemented == 12
Internal == 13
Unavailable == 14
DataLoss == 15
Unauthenticated == 16

UnknownCode == 500
UnknownReason == ""

ToGRPCCodeOrInternal(code) ==
    CASE code = 200 -> OK
      [] code = 400 -> InvalidArgument
      [] code = 401 -> Unauthenticated
      [] code = 403 -> PermissionDenied
      [] code = 404 -> NotFoundGrpc
      [] code = 409 -> Aborted
      [] code = 429 -> ResourceExhausted
      [] code = 500 -> Internal
      [] code = 501 -> Unimplemented
      [] code = 503 -> Unavailable
      [] code = 504 -> DeadlineExceeded
      [] OTHER -> Internal

ToGRPCCode(code) ==
    CASE code = 200 -> OK
      [] code = 400 -> InvalidArgument
      [] code = 401 -> Unauthenticated
      [] code = 403 -> PermissionDenied
      [] code = 404 -> NotFoundGrpc
      [] code = 409 -> Aborted
      [] code = 429 -> ResourceExhausted
      [] code = 500 -> Internal
      [] code = 501 -> Unimplemented
      [] code = 503 -> Unavailable
      [] code = 504 -> DeadlineExceeded
      [] OTHER -> UnknownGrpc

ToHTTPCodeAbortedInternal(code) ==
    CASE code = OK -> 200
      [] code = Canceled -> 499
      [] code = UnknownGrpc -> 500
      [] code = InvalidArgument -> 400
      [] code = DeadlineExceeded -> 504
      [] code = NotFoundGrpc -> 404
      [] code = AlreadyExists -> 409
      [] code = PermissionDenied -> 403
      [] code = Unauthenticated -> 401
      [] code = ResourceExhausted -> 429
      [] code = FailedPrecondition -> 400
      [] code = Aborted -> 500
      [] code = OutOfRange -> 400
      [] code = Unimplemented -> 501
      [] code = Internal -> 500
      [] code = Unavailable -> 503
      [] code = DataLoss -> 500
      [] OTHER -> 500

ToHTTPCode(code) ==
    CASE code = OK -> 200
      [] code = Canceled -> 499
      [] code = UnknownGrpc -> 500
      [] code = InvalidArgument -> 400
      [] code = DeadlineExceeded -> 504
      [] code = NotFoundGrpc -> 404
      [] code = AlreadyExists -> 409
      [] code = PermissionDenied -> 403
      [] code = Unauthenticated -> 401
      [] code = ResourceExhausted -> 429
      [] code = FailedPrecondition -> 400
      [] code = Aborted -> 409
      [] code = OutOfRange -> 400
      [] code = Unimplemented -> 501
      [] code = Internal -> 500
      [] code = Unavailable -> 503
      [] code = DataLoss -> 500
      [] OTHER -> 500

\* ------------------------------------------------------------------------
\* Values.  An *Error is an index into errs (0 is the nil pointer), a
\* map[string]string is an index into maps (0 is the nil map), so aliasing
\* of pointers and maps is visible.  A heap h is [errs, maps].
\* ------------------------------------------------------------------------

ErrorIDKey == "error_id"

\* values of Go's error interface
NilErr == [kind |-> "nil"]
Native(ref) == [kind |-> "native", ref |-> ref]
Generic(text) == [kind |-> "generic", text |-> text]
\* fmt.Errorf("wrap: %w", inner)
Wrapped(inner) == [kind |-> "wrap", inner |-> inner]
\* (*status.Status).Err() of a status that is not OK
StatusErr(s) == [kind |-> "status", s |-> s]

\* *status.Status: the nil pointer, or code, message and details
NilStatus == [kind |-> "nilstatus"]

EmptyMap == [k \in {} |-> <<>>]

MapOf(h, ref) == IF ref = 0 THEN EmptyMap ELSE h.maps[ref]

AllocMap(h, content) ==
    [h |-> [h EXCEPT !.maps = Append(h.maps, content)], ref |-> Len(h.maps) + 1]

AllocError(h, e) ==
    [h |-> [h EXCEPT !.errs = Append(h.errs, e)], res |-> Len(h.errs) + 1]

\* stderrors.As(err, &se) with se a *Error: the first *Error of the chain
RECURSIVE As(_)
As(err) ==
    IF err.kind = "native" THEN [ok |-> TRUE, se |-> err.ref]
    ELSE IF err.kind = "wrap" THEN As(err.inner)
    ELSE [ok |-> FALSE, se |-> 0]

\* the first carrier of a gRPC status in the chain
RECURSIVE AsStatus(_)
AsStatus(err) ==
    IF err.kind = "status" THEN [ok |-> TRUE, s |-> err.s]
    ELSE IF err.kind = "wrap" THEN AsStatus(err.inner)
    ELSE [ok |-> FALSE, s |-> NilStatus]

\* codes.Code.String(): the name of a code of the table, "Code(n)" otherwise
GrpcCodeName(c) ==
    CASE c = OK -> "OK"
      [] c = Canceled -> "Canceled"
      [] c = UnknownGrpc -> "Unknown"
      [] c = InvalidArgument -> "InvalidArgument"
      [] c = DeadlineExceeded -> "DeadlineExceeded"
      [] c = NotFoundGrpc -> "NotFound"
      [] c = AlreadyExists -> "AlreadyExists"
      [] c = PermissionDenied -> "PermissionDenied"
      [] c = ResourceExhausted -> "ResourceExhausted"
      [] c = FailedPrecondition -> "FailedPrecondition"
      [] c = Aborted -> "Aborted"
      [] c = OutOfRange -> "OutOfRange"
      [] c = Unimplemented -> "Unimplemented"
      [] c = Internal -> "Internal"
      [] c = Unavailable -> "Unavailable"
      [] c = DataLoss -> "DataLoss"
      [] c = Unauthenticated -> "Unauthenticated"
      [] OTHER -> "Code(" \o ToString(c) \o ")"

\* err.Error() of an error that holds no *Error
RECURSIVE ErrorText(_)
ErrorText(err) ==
    IF err.kind = "generic" THEN err.text
    ELSE IF err.kind = "wrap" THEN "wrap: " \o ErrorText(err.inner)
    ELSE IF err.kind = "status"
         THEN "rpc error: code = " \o GrpcCodeName(err.s.Code) \o " desc = "
              \o err.s.Message
    ELSE ""

StatusFromErrorKeepMessage(err) ==
    LET gs == AsStatus(err)
    IN IF gs.ok THEN [ok |-> TRUE, s |-> gs.s]
       ELSE [ok |-> FALSE,
             s |-> [kind |-> "status", Code |-> UnknownGrpc,
                    Message |-> ErrorText(err), Details |-> <<>>]]

\* status.FromError(err) of grpc for a non-nil err: the status err carries;
\* one found behind a wrapper gets the wrapper's text as message
StatusFromError(err) ==
    LET gs == AsStatus(err)
    IN IF err.kind = "status" THEN [ok |-> TRUE, s |-> err.s]
       ELSE IF gs.ok THEN [ok |-> TRUE, s |-> [gs.s EXCEPT !.Message = ErrorText(err)]]
       ELSE [ok |-> FALSE,
             s |-> [kind |-> "status", Code |-> UnknownGrpc,
                    Message |-> ErrorText(err), Details |-> <<>>]]

\* (*status.Status).Err(): nil for the nil status and for code OK
Err(s) == IF s = NilStatus \/ s.Code = OK THEN NilErr ELSE StatusErr(s)

\* ------------------------------------------------------------------------
\* Operations of the package, as functions of the heap
\* ------------------------------------------------------------------------

CloneFreshID(h, err) ==
    IF err = 0 THEN [h |-> h, res |-> 0]
    ELSE
        LET src == h.errs[err]
            md == MapOf(h, src.Metadata)
            metadata == AllocMap(h, [k \in DOMAIN md |-> md[k]])
        IN AllocError(metadata.h,
                      [cause |-> src.cause, Code |-> src.Code,
                       Reason |-> src.Reason, Message |-> src.Message,
                       Metadata |-> metadata.ref, ID |-> <<>>])

CloneSharedMap(h, err) ==
    IF err = 0 THEN [h |-> h, res |-> 0]
    ELSE
        LET src == h.errs[err]
        IN AllocError(h,
                      [cause |-> src.cause, Code |-> src.Code,
                       Reason |-> src.Reason, Message |-> src.Message,
                       Metadata |-> src.Metadata, ID |-> src.ID])

Clone(h, err) ==
    IF err = 0 THEN [h |-> h, res |-> 0]
    ELSE
        LET src == h.errs[err]
            md == MapOf(h, src.Metadata)
            metadata == AllocMap(h, [k \in DOMAIN md |-> md[k]])
        IN AllocError(metadata.h,
                      [cause |-> src.cause, Code |-> src.Code,
                       Reason |-> src.Reason, Message |-> src.Message,
                       Metadata |-> metadata.ref, ID |-> src.ID])

WithCauseInPlace(h, e, cause) ==
    [h |-> [h EXCEPT !.errs[e].cause = cause], res |-> e]

WithCause(h, e, cause) ==
    LET c == Clone(h, e)
    IN [h |-> [c.h EXCEPT !.errs[c.res].cause = cause], res |-> c.res]

WithMetadataMerge(h, e, md) ==
    LET c == Clone(h, e)
        old == MapOf(c.h, c.h.errs[c.res].Metadata)
        new == MapOf(c.h, md)
        merged == [k \in DOMAIN old \cup DOMAIN new |->
                      IF k \in DOMAIN new THEN new[k] ELSE old[k]]
    IN [h |-> [c.h EXCEPT !.maps[c.h.errs[c.res].Metadata] = merged], res |-> c.res]

WithMetadataNewID(h, e, md) ==
    LET c == Clone(h, e)
    IN [h |-> [c.h EXCEPT !.errs[c.res].Metadata = md, !.errs[c.res].ID = <<>>],
        res |-> c.res]

WithMetadata(h, e, md) ==
    LET c == Clone(h, e)
    IN [h |-> [c.h EXCEPT !.errs[c.res].Metadata = md], res |-> c.res]

WithIDIfUnset(h, e, id) ==
    LET c == Clone(h, e)
    IN [h |-> IF c.h.errs[c.res].ID = <<>>
              THEN [c.h EXCEPT !.errs[c.res].ID = id] ELSE c.h,
        res |-> c.res]

WithID(h, e, id) ==
    LET c == Clone(h, e)
    IN [h |-> [c.h EXCEPT !.errs[c.res].ID = id], res |-> c.res]

\* e.ID = id, and what the caller gets
StoreID(h, e, id) ==
    [h |-> [h EXCEPT !.errs[e].ID = id], ret |-> id, gen |-> TRUE]

GetIDAlways(h, e, callers, env) ==
    StoreID(h, e, generateErrorID(3, <<FrameGetID>> \o callers, env))

\* callers: the stack of the caller of the method, innermost first
GetID(h, e, callers, env) ==
    IF h.errs[e].ID = <<>>
    THEN StoreID(h, e, generateErrorID(3, <<FrameGetID>> \o callers, env))
    ELSE [h |-> h, ret |-> h.errs[e].ID, gen |-> FALSE]

RenderInPlace(h, e, gen) ==
    LET x == h.errs[e]
        md == MapOf(h, x.Metadata)
        metadata == [k \in DOMAIN md \cup {ErrorIDKey} |->
                        IF k = ErrorIDKey THEN x.ID ELSE md[k]]
        code == ToGRPCCode(x.Code)
        s == IF code = OK THEN NilStatus
             ELSE [kind |-> "status", Code |-> code, Message |-> x.Message,
                   Details |-> <<[type |-> "Status", Code |-> x.Code,
                                  Reason |-> x.Reason, Message |-> x.Message,
                                  Metadata |-> metadata]>>]
    IN [h |-> IF x.Metadata = 0 THEN h
              ELSE [h EXCEPT !.maps[x.Metadata] = metadata],
        s |-> s, gen |-> gen]

\* the metadata copied, error_id added, and the status with its detail;
\* WithDetails refuses a status with code OK and its error is dropped
Render(h, e, gen) ==
    LET x == h.errs[e]
        md == MapOf(h, x.Metadata)
        metadata == [k \in DOMAIN md \cup {ErrorIDKey} |->
                        IF k = ErrorIDKey THEN x.ID ELSE md[k]]
        code == ToGRPCCode(x.Code)
        s == IF code = OK THEN NilStatus
             ELSE [kind |-> "status", Code |-> code, Message |-> x.Message,
                   Details |-> <<[type |-> "Status", Code |-> x.Code,
                                  Reason |-> x.Reason, Message |-> x.Message,
                                  Metadata |-> metadata]>>]
    IN [h |-> h, s |-> s, gen |-> gen]

GRPCStatus(h, e, callers, env) ==
    IF h.errs[e].ID = <<>>
    THEN Render(StoreID(h, e, generateErrorID(3, <<FrameGRPCStatus>> \o callers,
                                              env)).h, e, TRUE)
    ELSE Render(h, e, FALSE)

HasErrorIDKey(md) == md # EmptyMap /\ ErrorIDKey \in DOMAIN md

\* d.Metadata != nil && d.Metadata["error_id"] != ""
HasErrorID(md) ==
    md # EmptyMap /\ ErrorIDKey \in DOMAIN md /\ md[ErrorIDKey] # <<>>

KeepErrorID(md) == md

\* delete(d.Metadata, "error_id")
WithoutErrorID(md) == [k \in DOMAIN md \ {ErrorIDKey} |-> md[k]]

\* the index of the first detail FromError consumes, 0 if there is none:
\* an errorspb.Status, or an Any holding one
RECURSIVE FirstStatusDetail(_, _)
FirstStatusDetail(details, i) ==
    IF i > Len(details) THEN 0
    ELSE IF details[i].type \in {"Status", "AnyStatus"} THEN i
    ELSE FirstStatusDetail(details, i + 1)

\* the call ends in a panic: no result, the heap as it was
Panicked(h) == [h |-> h, res |-> 0, gen |-> FALSE, panic |-> TRUE]

FromNativeRemint(h, se, callers, env) ==
    IF se = 0 THEN Panicked(h)
    ELSE [h |-> StoreID(h, se, generateErrorID(3, <<FrameFromError(434)>> \o callers,
                                               env)).h,
          res |-> se, gen |-> TRUE, panic |-> FALSE]

\* err holds the *Error se; stderrors.As also finds a nil *Error (se = 0),
\* and se.ID then dereferences the nil pointer
FromNative(h, se, callers, env) ==
    IF se = 0 THEN Panicked(h)
    ELSE IF h.errs[se].ID = <<>>
    THEN [h |-> StoreID(h, se, generateErrorID(3, <<FrameFromError(434)>> \o callers,
                                               env)).h,
          res |-> se, gen |-> TRUE, panic |-> FALSE]
    ELSE [h |-> h, res |-> se, gen |-> FALSE, panic |-> FALSE]

\* err holds the gRPC status gs; id is the id made for ret
FromStatus(h, gs, id) ==
    LET ret == [cause |-> NilErr, Code |-> ToHTTPCode(gs.Code),
                Reason |-> UnknownReason, Message |-> gs.Message,
                Metadata |-> 0, ID |-> id]
        i == FirstStatusDetail(gs.Details, 1)
        d == gs.Details[i]
        hasID == HasErrorID(d.Metadata)
        content == IF hasID THEN WithoutErrorID(d.Metadata) ELSE d.Metadata
        \* an unmarshalled map without entries is the nil map
        md == IF d.Metadata = EmptyMap THEN [h |-> h, ref |-> 0]
              ELSE AllocMap(h, content)
    IN IF i = 0 THEN AllocError(h, ret)
       ELSE AllocError(md.h,
                       [ret EXCEPT !.Code = d.Code, !.Reason = d.Reason,
                                   !.Message = d.Message, !.Metadata = md.ref,
                                   !.ID = IF hasID THEN d.Metadata[ErrorIDKey]
                                          ELSE id])

\* the result with gen set: an id was generated
Generated(out) ==
    [h |-> out.h, res |-> out.res, gen |-> TRUE, panic |-> FALSE]

FromGenericNoText(h, err, id) ==
    AllocError(h, [cause |-> NilErr, Code |-> UnknownCode,
                   Reason |-> UnknownReason, Message |-> "",
                   Metadata |-> 0, ID |-> id])

\* err holds neither an *Error nor a gRPC status; id is the id made for it
FromGeneric(h, err, id) ==
    AllocError(h, [cause |-> NilErr, Code |-> UnknownCode,
                   Reason |-> UnknownReason, Message |-> ErrorText(err),
                   Metadata |-> 0, ID |-> id])

FromError(h, err, callers, env) ==
    IF err = NilErr THEN [h |-> h, res |-> 0, gen |-> FALSE, panic |-> FALSE]
    ELSE IF As(err).ok THEN FromNative(h, As(err).se, callers, env)
    ELSE IF ~StatusFromError(err).ok THEN
        Generated(FromGeneric(h, err,
            generateErrorID(2, <<FrameFromError(445)>> \o callers, env)))
    ELSE
        Generated(FromStatus(h, StatusFromError(err).s,
            generateErrorID(2, <<FrameFromError(454)>> \o callers, env)))

\* what a call that returns a value and may write an id leaves behind
Returned(h, ret, gen) == [h |-> h, ret |-> ret, gen |-> gen, panic |-> FALSE]

\* a panic inside a call ends the caller too
Unwound(h) == [h |-> h, ret |-> <<>>, gen |-> FALSE, panic |-> TRUE]

\* the id GetID returns for the error FromError found
GotID(got, gen) == Returned(got.h, got.ret, got.gen \/ gen)

\* if appErr != nil { return appErr.GetID() }; return ""
IDOf(appErr, callers, env) ==
    IF appErr.panic THEN Unwound(appErr.h)
    ELSE IF appErr.res # 0
    THEN GotID(GetID(appErr.h, appErr.res, <<FrameID(501)>> \o callers, env),
               appErr.gen)
    ELSE Returned(appErr.h, <<>>, appErr.gen)

\* ID(err): FromError, then GetID on its result
ID(h, err, callers, env) ==
    IF err = NilErr THEN Returned(h, <<>>, FALSE)
    ELSE IDOf(FromError(h, err, <<FrameID(499)>> \o callers, env), callers, env)

\* int(FromError(err).Code)
CodeOf(appErr) ==
    IF appErr.panic \/ appErr.res = 0 THEN Unwound(appErr.h)
    ELSE Returned(appErr.h, appErr.h.errs[appErr.res].Code, appErr.gen)

CodeNilUnknown(h, err, callers, env) ==
    IF err = NilErr THEN Returned(h, UnknownCode, FALSE)
    ELSE CodeOf(FromError(h, err, <<FrameCode>> \o callers, env))

\* Code(err): 200 for nil, else the code of FromError(err)
Code(h, err, callers, env) ==
    IF err = NilErr THEN Returned(h, 200, FALSE)
    ELSE CodeOf(FromError(h, err, <<FrameCode>> \o callers, env))

\* FromError(err).Reason
ReasonOf(appErr) ==
    IF appErr.panic \/ appErr.res = 0 THEN Unwound(appErr.h)
    ELSE Returned(appErr.h, appErr.h.errs[appErr.res].Reason, appErr.gen)

\* Reason(err): UnknownReason for nil, else the reason of FromError(err)
Reason(h, err, callers, env) ==
    IF err = NilErr THEN Returned(h, UnknownReason, FALSE)
    ELSE ReasonOf(FromError(h, err, <<FrameReason>> \o callers, env))

\* IsBadRequest ... IsClientClosed: Code(err) == the code of the constructor
IsOf(c, code) ==
    IF code.panic THEN code ELSE Returned(code.h, code.ret = ConvCode(c), code.gen)

IsChecker(h, c, err, callers, env) ==
    IsOf(c, Code(h, err, <<FrameIs(c)>> \o callers, env))

\* e.Is(err) of a non-nil e: stderrors.As finds the first *Error of err's
\* chain, a nil *Error too, and se.Code then dereferences the nil pointer
Is(h, e, err) ==
    IF ~As(err).ok THEN Returned(h, FALSE, FALSE)
    ELSE IF As(err).se = 0 THEN Unwound(h)
    ELSE Returned(h, h.errs[As(err).se].Code = h.errs[e].Code
                     /\ h.errs[As(err).se].Reason = h.errs[e].Reason, FALSE)

IsClientErrorTo500(h, e) == h.errs[e].Code >= 400 /\ h.errs[e].Code <= 500

\* e.IsClientError(), e.IsServerError(), e.IsAuthError() of a non-nil e
IsClientError(h, e) == h.errs[e].Code >= 400 /\ h.errs[e].Code < 500

IsServerError(h, e) == h.errs[e].Code >= 500

IsAuthError(h, e) == h.errs[e].Code = 401 \/ h.errs[e].Code = 403

\* New, Newf and Errorf differ in the frame that calls the generator; ctor is
\* that frame.  Newf and Errorf get their message from fmt.Sprintf.
ConstructLazy(h, ctor, code, reason, message, callers, env) ==
    AllocError(h, [cause |-> NilErr, Code |-> code, Reason |-> reason,
                   Message |-> message, Metadata |-> 0, ID |-> <<>>])

Construct(h, ctor, code, reason, message, callers, env) ==
    AllocError(h, [cause |-> NilErr, Code |-> code, Reason |-> reason,
                   Message |-> message, Metadata |-> 0,
                   ID |-> generateErrorID(2, <<ctor>> \o callers, env)])

New(h, code, reason, message, callers, env) ==
    Construct(h, FrameNew, code, reason, message, callers, env)

Newf(h, code, reason, message, callers, env) ==
    Construct(h, FrameNewf, code, reason, message, callers, env)

Errorf(h, code, reason, message, callers, env) ==
    Construct(h, FrameErrorf, code, reason, message, callers, env)

\* BadRequest ... ClientClosed: New with the fixed code
Convenience(h, c, reason, message, callers, env) ==
    New(h, ConvCode(c), reason, message, <<FrameConv(c)>> \o callers, env)

\* ------------------------------------------------------------------------
\* The state machine: a program that builds errors, derives others from
\* them, sends them through a gRPC status and back, and edits the maps it
\* holds.
\*   errs, maps  the heap
\*   st          the status GRPCStatus returned last, with the error it was
\*               rendered from (of) and, when that error had just been made
\*               by WithMetadata, the receiver (base) and the entries (m)
\*               of that call
\*   last        the call made last: operation, receiver, arguments, results
\*   thr         the goroutines that share errs[1] (used by SpecRace only)
\* ------------------------------------------------------------------------

VARIABLES errs, maps, st, last, thr

vars == <<errs, maps, st, last, thr>>

\* how many errors a run allocates, per specification
MaxErrors == 2
MaxWireErrors == 2
MaxTripErrors == 3
MaxMapErrors == 2
MaxCtorErrors == 2
MaxFromErrors == 1
MaxRemoteErrors == 1
MaxWebCode == 600
MaxGrpcCode == 20
MaxKindErrors == 2
MaxIsErrors == 2
MaxFields == 7
MaxLoopErrors == 3
MaxServeErrors == 1

Pid == 7
MainGid == 1

\* what time.Now().UnixNano() may return (wall clock time: no order between
\* two readings) and the 4 bytes crypto/rand delivers
Times == {0, 1}
RandBufs == {<<18, 52, 86, 120>>}

NewCodes == {200, 404}
LiteralCodes == {404}
Reasons == {"R"}
Messages == {"m"}
UserLines == {10}

V1 == <<118>>
V2 == <<119>>
CustomID ==
    <<99, 117, 115, 116, 111, 109, 45, 101, 114, 114, 111, 114, 45, 105, 100,
      45, 49, 50, 51, 52, 53>>

\* the map literals a caller passes to WithMetadata
MapLiterals ==
    {EmptyMap, [k \in {"k"} |-> V1], [k \in {ErrorIDKey} |-> V1]}

NilMap == {[nil |-> TRUE, lit |-> EmptyMap]}

MapArgs == NilMap \cup {[nil |-> FALSE, lit |-> lit] : lit \in MapLiterals}

\* the causes a caller passes to WithCause
Causes == {Generic("boom")}

heap == [errs |-> errs, maps |-> maps]

Env(ts, rnd, gid) ==
    [ts |-> ts, gid |-> gid, pid |-> Pid, rnd |-> rnd, fnOk |-> TRUE,
     gidOk |-> TRUE, randOk |-> TRUE, ts2 |-> ts]

Envs == {Env(ts, rnd, MainGid) : ts \in Times, rnd \in RandBufs}

\* for the calls that read neither time nor randomness
NoEnv == Env(0, <<0, 0, 0, 0>>, MainGid)

\* time and randomness are inputs of a call only when it generates an id
EnvsFor(gen) == IF gen THEN Envs ELSE {NoEnv}

Refs == 1..Len(errs)

\* the maps the program can reach
LiveMaps == {errs[i].Metadata : i \in Refs} \ {0}

\* a string handed to DecodeErrorID as the test that builds it knows it: the
\* fields of the text, with the values the fields stand for, and what was
\* done to the encoding
NoSrc == [parts |-> <<>>, damage |-> "none"]

\* the result of DecodeErrorID before any call
NoDecode == [err |-> "none", nil |-> TRUE, info |-> NoInfo]

\* pre and preMap are the receiver and the entries of its map before the
\* call; preRes the entries of the map of res before a map edit
NoCall ==
    [op |-> "none", recv |-> 0, res |-> 0, ret |-> <<>>, argMap |-> 0,
     argId |-> <<>>, argErr |-> NilErr, onSt |-> FALSE,
     code |-> 0, reason |-> "", message |-> "", panic |-> FALSE,
     val |-> 0, str |-> "", yes |-> FALSE, src |-> NoSrc, dec |-> NoDecode,
     pre |-> NilErr, preMap |-> EmptyMap, preRes |-> EmptyMap]

Call(op, recv) ==
    [NoCall EXCEPT !.op = op, !.recv = recv,
                   !.pre = IF recv = 0 THEN NilErr ELSE errs[recv],
                   !.preMap = IF recv = 0 THEN EmptyMap
                              ELSE MapOf(heap, errs[recv].Metadata)]

NoSt == [s |-> NilStatus, of |-> 0, id |-> <<>>, base |-> 0, m |-> EmptyMap]

NoThreads == <<>>

Init ==
    /\ errs = <<>>
    /\ maps = <<>>
    /\ st = NoSt
    /\ last = NoCall
    /\ thr = NoThreads

\* the heap after a call that may allocate up to limit errors
Commit(h, limit) ==
    /\ Len(h.errs) <= limit
    /\ errs' = h.errs
    /\ maps' = h.maps

\* &Error{Status: Status{Code: ..., Reason: ..., Message: ...,
\* Metadata: ...}}: a struct literal, no ID yet
CallLiteral(limit, args) ==
    \E code \in LiteralCodes, reason \in Reasons, message \in Messages,
       arg \in args :
        LET md == IF arg.nil THEN [h |-> heap, ref |-> 0]
                  ELSE AllocMap(heap, arg.lit)
            out == AllocError(md.h,
                     [cause |-> NilErr, Code |-> code, Reason |-> reason,
                      Message |-> message, Metadata |-> md.ref, ID |-> <<>>])
        IN /\ Commit(out.h, limit)
           /\ last' = [NoCall EXCEPT !.op = "Literal", !.res = out.res,
                                     !.code = code, !.reason = reason,
                                     !.message = message]
           /\ UNCHANGED <<st, thr>>

CallNew(limit) ==
    \E code \in NewCodes, reason \in Reasons, message \in Messages,
       line \in UserLines, env \in Envs :
        \E out \in {New(heap, code, reason, message, UserStack(line), env)} :
           /\ Commit(out.h, limit)
           /\ last' = [NoCall EXCEPT !.op = "New", !.res = out.res,
                                     !.code = code, !.reason = reason,
                                     !.message = message]
           /\ UNCHANGED <<st, thr>>

CallNewf(limit) ==
    \E code \in NewCodes, reason \in Reasons, message \in Messages,
       line \in UserLines, env \in Envs :
        \E out \in {Newf(heap, code, reason, message, UserStack(line), env)} :
           /\ Commit(out.h, limit)
           /\ last' = [NoCall EXCEPT !.op = "Newf", !.res = out.res,
                                     !.code = code, !.reason = reason,
                                     !.message = message]
           /\ UNCHANGED <<st, thr>>

CallErrorf(limit) ==
    \E code \in NewCodes, reason \in Reasons, message \in Messages,
       line \in UserLines, env \in Envs :
        \E out \in {Errorf(heap, code, reason, message, UserStack(line), env)} :
           /\ Commit(out.h, limit)
           /\ last' = [NoCall EXCEPT !.op = "Errorf", !.res = out.res,
                                     !.code = code, !.reason = reason,
                                     !.message = message]
           /\ UNCHANGED <<st, thr>>

CallConvenience(limit) ==
    \E c \in ConvNames, reason \in Reasons, message \in Messages,
       line \in UserLines, env \in Envs :
        \E out \in {Convenience(heap, c, reason, message, UserStack(line), env)} :
           /\ Commit(out.h, limit)
           /\ last' = [NoCall EXCEPT !.op = c, !.res = out.res,
                                     !.code = ConvCode(c), !.reason = reason,
                                     !.message = message]
           /\ UNCHANGED <<st, thr>>

CallClone(limit) ==
    \E e \in Refs \cup {0} :
        \E out \in {Clone(heap, e)} :
           /\ Commit(out.h, limit)
           /\ last' = [Call("Clone", e) EXCEPT !.res = out.res]
           /\ UNCHANGED <<st, thr>>

CallWithCause(limit) ==
    \E e \in Refs, cause \in Causes :
        \E out \in {WithCause(heap, e, cause)} :
           /\ Commit(out.h, limit)
           /\ last' = [Call("WithCause", e) EXCEPT !.res = out.res,
                                                   !.argErr = cause]
           /\ UNCHANGED <<st, thr>>

\* the caller passes the nil map or a fresh map literal
CallWithMetadata(limit) ==
    \E e \in Refs, arg \in MapArgs :
        LET md == IF arg.nil THEN [h |-> heap, ref |-> 0]
                  ELSE AllocMap(heap, arg.lit)
            out == WithMetadata(md.h, e, md.ref)
        IN /\ Commit(out.h, limit)
           /\ last' = [Call("WithMetadata", e) EXCEPT !.res = out.res,
                                                      !.argMap = md.ref]
           /\ UNCHANGED <<st, thr>>

CallWithID(limit) ==
    \E e \in Refs, id \in {<<>>, CustomID} :
        \E out \in {WithID(heap, e, id)} :
           /\ Commit(out.h, limit)
           /\ last' = [Call("WithID", e) EXCEPT !.res = out.res, !.argId = id]
           /\ UNCHANGED <<st, thr>>

CallGetID(limit) ==
    \E e \in Refs, line \in UserLines :
      \E env \in EnvsFor(errs[e].ID = <<>>) :
        \E out \in {GetID(heap, e, UserStack(line), env)} :
           /\ Commit(out.h, limit)
           /\ last' = [Call("GetID", e) EXCEPT !.ret = out.ret]
           /\ UNCHANGED <<st, thr>>

CallGRPCStatus(limit) ==
    \E e \in Refs, line \in UserLines :
      \E env \in EnvsFor(errs[e].ID = <<>>) :
        \E out \in {GRPCStatus(heap, e, UserStack(line), env)},
           chained \in {last.op = "WithMetadata" /\ last.res = e} :
           /\ Commit(out.h, limit)
           /\ last' = Call("GRPCStatus", e)
           /\ st' = [s |-> out.s, of |-> e, id |-> out.h.errs[e].ID,
                     base |-> IF chained THEN last.recv ELSE 0,
                     m |-> IF chained THEN MapOf(heap, last.argMap) ELSE EmptyMap]
           /\ UNCHANGED thr

\* FromError on what the program holds: nil or one of its errors, bare or
\* wrapped
CallFromError(limit) ==
    \E err \in {NilErr}
               \cup {Native(r) : r \in Refs}
               \cup {Wrapped(Native(r)) : r \in Refs},
       line \in UserLines :
      \E env \in EnvsFor(err # NilErr /\ (As(err).ok => errs[As(err).se].ID = <<>>)) :
        \E out \in {FromError(heap, err, UserStack(line), env)} :
           /\ Commit(out.h, limit)
           /\ last' = [Call("FromError", As(err).se) EXCEPT !.res = out.res,
                                                            !.argErr = err]
           /\ UNCHANGED <<st, thr>>

\* FromError on the error of the status rendered last, as its receiver does
CallFromErrorOfStatus(limit) ==
    \E line \in UserLines, env \in EnvsFor(Err(st.s) # NilErr) :
        \E out \in {FromError(heap, Err(st.s), UserStack(line), env)} :
           /\ st.of # 0
           /\ Commit(out.h, limit)
           /\ last' = [NoCall EXCEPT !.op = "FromError", !.res = out.res,
                                     !.argErr = Err(st.s), !.onSt = TRUE]
           /\ UNCHANGED <<st, thr>>

CallID(limit) ==
    \E err \in {NilErr} \cup {Native(r) : r \in Refs},
       line \in UserLines :
      \E env \in EnvsFor(err # NilErr /\ errs[err.ref].ID = <<>>) :
        \E out \in {ID(heap, err, UserStack(line), env)} :
           /\ Commit(out.h, limit)
           /\ last' = [Call("ID", As(err).se) EXCEPT !.argErr = err,
                                                      !.ret = out.ret]
           /\ UNCHANGED <<st, thr>>

\* a nil *Error held in an error value: not the nil error
TypedNil == Native(0)

\* the metadata a remote status payload may hold
PayloadMaps ==
    {EmptyMap, [k \in {"k"} |-> V1], [k \in {ErrorIDKey} |-> V1],
     [k \in {ErrorIDKey} |-> <<>>], [k \in {"k", ErrorIDKey} |-> V1]}

\* an errorspb.Status detail (kind "Status"), one packed in an Any (kind
\* "AnyStatus"), and a detail of another message type
Payload(kind, metadata) ==
    [type |-> kind, Code |-> 409, Reason |-> "PR", Message |-> "pm",
     Metadata |-> metadata]

OtherDetail == [type |-> "Other"]

DetailLists ==
    {<<>>, <<OtherDetail>>}
    \cup {<<Payload("Status", md)>> : md \in PayloadMaps}
    \cup {<<OtherDetail, Payload("AnyStatus", md)>> : md \in PayloadMaps}
    \cup {<<Payload("Status", md), Payload("Status", EmptyMap)>> :
             md \in {[k \in {"k"} |-> V1]}}

\* 99 is a gRPC code outside the table of ToHTTPCode

\* gRPC statuses: one code with every list of details, and more codes, one
\* of them outside the table, without details
RemoteStatuses ==
    {[kind |-> "status", Code |-> NotFoundGrpc, Message |-> "m", Details |-> ds] :
        ds \in DetailLists}
    \cup {[kind |-> "status", Code |-> c, Message |-> "m", Details |-> <<>>] :
             c \in {Canceled, 99}}

\* errors that carry a gRPC status, themselves or behind a wrapper
RemoteErrors ==
    {StatusErr(s) : s \in RemoteStatuses}
    \cup {Wrapped(StatusErr(s)) : s \in RemoteStatuses}

\* nil, a nil *Error, and errors of other packages, bare and wrapped
ForeignErrors == {NilErr, TypedNil, Generic("boom"), Wrapped(Generic("boom"))}

HeldErrors ==
    {Native(r) : r \in Refs} \cup {Wrapped(Native(r)) : r \in Refs}
    \cup {Wrapped(Wrapped(Native(r))) : r \in Refs}

\* whether FromError(err) reads time and randomness
Generates(err) ==
    err # NilErr /\ err # TypedNil /\ (As(err).ok => errs[As(err).se].ID = <<>>)

\* whether FromError(err) builds a new error
Allocates(err) == err # NilErr /\ ~As(err).ok

\* the readings of the clock for the calls whose id is dropped or replaced
ProbeEnvs == {Env(0, rnd, MainGid) : rnd \in RandBufs}

ProbeEnvsFor(gen) == IF gen THEN ProbeEnvs ELSE {NoEnv}

CallFromErrorAny(limit, inputs) ==
    \E err \in inputs \cup HeldErrors, line \in UserLines :
      /\ Allocates(err) => Len(errs) < limit
      /\ \E env \in EnvsFor(Generates(err)) :
        \E out \in {FromError(heap, err, UserStack(line), env)} :
           /\ Commit(out.h, limit)
           /\ last' = [Call("FromError", As(err).se) EXCEPT !.res = out.res,
                                                            !.argErr = err,
                                                            !.panic = out.panic]
           /\ UNCHANGED <<st, thr>>

\* the errors Code, Reason, ID and the checkers are called on
ProbeErrors ==
    {NilErr, TypedNil, Generic("boom")}
    \cup {Native(r) : r \in Refs} \cup {Wrapped(Native(r)) : r \in Refs}

CallCode(limit) ==
    \E err \in ProbeErrors, line \in UserLines :
      /\ Allocates(err) => Len(errs) < limit
      /\ \E env \in ProbeEnvsFor(Generates(err)) :
        \E out \in {Code(heap, err, UserStack(line), env)} :
           /\ Commit(out.h, limit)
           /\ last' = [Call("Code", As(err).se) EXCEPT
                          !.argErr = err, !.panic = out.panic,
                          !.val = IF out.panic THEN 0 ELSE out.ret]
           /\ UNCHANGED <<st, thr>>

CallReason(limit) ==
    \E err \in ProbeErrors, line \in UserLines :
      /\ Allocates(err) => Len(errs) < limit
      /\ \E env \in ProbeEnvsFor(Generates(err)) :
        \E out \in {Reason(heap, err, UserStack(line), env)} :
           /\ Commit(out.h, limit)
           /\ last' = [Call("Reason", As(err).se) EXCEPT
                          !.argErr = err, !.panic = out.panic,
                          !.str = IF out.panic THEN "" ELSE out.ret]
           /\ UNCHANGED <<st, thr>>

CallIDAny(limit) ==
    \E err \in ProbeErrors, line \in UserLines :
      /\ Allocates(err) => Len(errs) < limit
      /\ \E env \in ProbeEnvsFor(Generates(err)) :
        \E out \in {ID(heap, err, UserStack(line), env)} :
           /\ Commit(out.h, limit)
           /\ last' = [Call("ID", As(err).se) EXCEPT
                          !.argErr = err, !.panic = out.panic, !.ret = out.ret]
           /\ UNCHANGED <<st, thr>>

\* IsBadRequest(err) ... IsClientClosed(err)
CallIsChecker(limit) ==
    \E c \in ConvNames, err \in ProbeErrors \ {TypedNil, Generic("boom")},
       line \in UserLines :
      \E env \in ProbeEnvsFor(Generates(err)) :
        \E out \in {IsChecker(heap, c, err, UserStack(line), env)} :
           /\ Commit(out.h, limit)
           /\ last' = [Call("IsChecker", As(err).se) EXCEPT
                          !.argErr = err, !.reason = c, !.yes = out.ret]
           /\ UNCHANGED <<st, thr>>

\* an edit made right after Clone keeps the pair (recv, res) of that call
\* and the entries both maps had before the edit
Edit(op, ref) ==
    IF last.op = "Clone" /\ last.res # 0
    THEN [NoCall EXCEPT !.op = op, !.argMap = ref, !.recv = last.recv,
                        !.res = last.res,
                        !.preMap = MapOf(heap, errs[last.recv].Metadata),
                        !.preRes = MapOf(heap, errs[last.res].Metadata)]
    ELSE [NoCall EXCEPT !.op = op, !.argMap = ref]

\* the program writes to a map it holds: m[k] = V2
MapSet ==
    \E ref \in LiveMaps, k \in {"k", ErrorIDKey} :
        /\ maps' = [maps EXCEPT ![ref] =
                       [j \in DOMAIN maps[ref] \cup {k} |->
                           IF j = k THEN V2 ELSE maps[ref][j]]]
        /\ last' = Edit("MapSet", ref)
        /\ UNCHANGED <<errs, st, thr>>

\* delete(m, k)
MapDelete ==
    \E ref \in LiveMaps :
        \E k \in DOMAIN maps[ref] :
            /\ maps' = [maps EXCEPT ![ref] =
                           [j \in DOMAIN maps[ref] \ {k} |-> maps[ref][j]]]
            /\ last' = Edit("MapDelete", ref)
            /\ UNCHANGED <<errs, st, thr>>

\* In Spec, SpecWire, SpecTrip and SpecMaps the program builds one error
\* first and derives every other error from the ones it holds.
NoErrors == errs = <<>>

\* construction and the copy-on-write derivations
Next ==
    \/ NoErrors /\ CallLiteral(MaxErrors, MapArgs)
    \/ NoErrors /\ CallNew(MaxErrors)
    \/ CallWithCause(MaxErrors)
    \/ CallWithMetadata(MaxErrors)
    \/ CallWithID(MaxErrors)
    \/ CallGetID(MaxErrors)
    \/ CallID(MaxErrors)

Spec == Init /\ [][Next]_vars

\* derivations, the rendering as a gRPC status and the way back
NextWire ==
    \/ NoErrors /\ CallLiteral(MaxWireErrors, NilMap)
    \/ NoErrors /\ CallNew(MaxWireErrors)
    \/ CallClone(MaxWireErrors)
    \/ CallWithCause(MaxWireErrors)
    \/ CallWithMetadata(MaxWireErrors)
    \/ CallGetID(MaxWireErrors)
    \/ CallGRPCStatus(MaxWireErrors)
    \/ CallFromError(MaxWireErrors)
    \/ CallFromErrorOfStatus(MaxWireErrors)

SpecWire == Init /\ [][NextWire]_vars

\* the round trip of a derived error through a gRPC status
NextTrip ==
    \/ NoErrors /\ CallLiteral(MaxTripErrors, NilMap)
    \/ NoErrors /\ CallNew(MaxTripErrors)
    \/ CallWithMetadata(MaxTripErrors)
    \/ CallGRPCStatus(MaxTripErrors)
    \/ CallFromErrorOfStatus(MaxTripErrors)

SpecTrip == Init /\ [][NextTrip]_vars

\* clones and the maps behind them
NextMaps ==
    \/ NoErrors /\ CallLiteral(MaxMapErrors, MapArgs)
    \/ CallWithMetadata(MaxMapErrors)
    \/ CallClone(MaxMapErrors)
    \/ MapSet
    \/ MapDelete

SpecMaps == Init /\ [][NextMaps]_vars

\* the constructors
NextCtor ==
    \/ CallNew(MaxCtorErrors)
    \/ CallNewf(MaxCtorErrors)
    \/ CallErrorf(MaxCtorErrors)
    \/ CallConvenience(MaxCtorErrors)

SpecCtor == Init /\ [][NextCtor]_vars

\* FromError and the functions built on it, on every kind of error
NextFrom ==
    \/ NoErrors /\ CallLiteral(MaxFromErrors, NilMap)
    \/ NoErrors /\ CallNew(MaxFromErrors)
    \/ CallFromErrorAny(MaxFromErrors, ForeignErrors)
    \/ CallCode(MaxFromErrors)
    \/ CallReason(MaxFromErrors)
    \/ CallIDAny(MaxFromErrors)
    \/ CallIsChecker(MaxFromErrors)

SpecFrom == Init /\ [][NextFrom]_vars

\* FromError on the errors of a gRPC client
NextRemote ==
    \/ CallFromErrorAny(MaxRemoteErrors, RemoteErrors)
    \/ CallCode(MaxRemoteErrors)

SpecRemote == Init /\ [][NextRemote]_vars

\* ------------------------------------------------------------------------
\* The server interceptors.  Both are the same statements around the
\* handler's error; the anonymous functions are
\* "interceptor.UnaryServerErrorInterceptor.func1" and
\* "interceptor.StreamServerErrorInterceptor.func1".
\* ------------------------------------------------------------------------

InterceptorPrefix ==
    <<103, 105, 116, 104, 117, 98, 46, 99, 111, 109, 47, 104, 111, 110, 101,
      121, 98, 98, 113, 47, 112, 114, 111, 116, 111, 99, 45, 103, 101, 110,
      45, 103, 111, 45, 122, 101, 114, 111, 45, 101, 114, 114, 111, 114, 115,
      47, 105, 110, 116, 101, 114, 99, 101, 112, 116, 111, 114, 46>>

InterceptorFile ==
    <<47, 115, 114, 99, 47, 105, 110, 116, 101, 114, 99, 101, 112, 116, 111,
      114, 47, 105, 110, 116, 101, 114, 99, 101, 112, 116, 111, 114, 46, 103,
      111>>

UnaryFunc ==
    <<85, 110, 97, 114, 121, 83, 101, 114, 118, 101, 114, 69, 114, 114, 111,
      114, 73, 110, 116, 101, 114, 99, 101, 112, 116, 111, 114, 46, 102, 117,
      110, 99, 49>>

StreamFunc ==
    <<83, 116, 114, 101, 97, 109, 83, 101, 114, 118, 101, 114, 69, 114, 114,
      111, 114, 73, 110, 116, 101, 114, 99, 101, 112, 116, 111, 114, 46, 102,
      117, 110, 99, 49>>

InterceptorFrame(name, line) ==
    [fn |-> InterceptorPrefix \o name, file |-> InterceptorFile, line |-> line]

\* (*Status).Err(): nil for the nil status and for a status with code OK
StatusErrOf(s) ==
    IF s = NilStatus THEN NilErr
    ELSE IF s.Code = OK THEN NilErr
    ELSE StatusErr(s)

\* what an interceptor returns: the error, the *Error it was rendered from
\* (0 if none) and whether the call panicked
Intercepted(h, err, appErr) ==
    [h |-> h, err |-> err, appErr |-> appErr, panic |-> FALSE]

\* appErr.GetID() and appErr.GRPCStatus().Err()
Respond(h, appErr, name, lines, env) ==
    Intercepted(
        GRPCStatus(GetID(h, appErr, <<InterceptorFrame(name, lines[2])>>,
                         env).h,
                   appErr, <<InterceptorFrame(name, lines[3])>>, env).h,
        StatusErrOf(
            GRPCStatus(GetID(h, appErr, <<InterceptorFrame(name, lines[2])>>,
                             env).h,
                       appErr, <<InterceptorFrame(name, lines[3])>>, env).s),
        appErr)

\* the statements after appErr := errors.FromError(err)
Convert(out, err, name, lines, env) ==
    IF out.panic
    THEN [h |-> out.h, err |-> NilErr, appErr |-> 0, panic |-> TRUE]
    ELSE IF out.res # 0 THEN Respond(out.h, out.res, name, lines, env)
    ELSE Intercepted(out.h,
                     StatusErr([kind |-> "status", Code |-> Internal,
                                Message |-> ErrorText(err),
                                Details |-> <<>>]),
                     0)

InterceptUnconverted(h, err, name, lines, env) == Intercepted(h, err, 0)

\* the handler has returned err
Intercept(h, err, name, lines, env) ==
    IF err = NilErr THEN Intercepted(h, err, 0)
    ELSE Convert(FromError(h, err, <<InterceptorFrame(name, lines[1])>>, env),
                 err, name, lines, env)

UnaryServerErrorInterceptor(h, err, env) ==
    Intercept(h, err, UnaryFunc, <<24, 27, 30>>, env)

StreamServerErrorInterceptor(h, err, env) ==
    Intercept(h, err, StreamFunc, <<53, 56, 59>>, env)

\* what a handler returns: nil, a gRPC status error without details for
\* every code but OK (status.Error makes no error of OK), in and outside
\* the table, statuses with details, and an error of another package
BareStatuses ==
    {[kind |-> "status", Code |-> c, Message |-> m, Details |-> <<>>] :
        c \in 1..MaxGrpcCode, m \in {"m", ""}}

HandlerErrors ==
    {NilErr, Generic("boom")}
    \cup {StatusErr(s) : s \in BareStatuses \cup RemoteStatuses}

\* the status of the error an interceptor returned goes to st, and
\* whether that error is nil to last.yes
Serve(op, err, out, limit) ==
    /\ Commit(out.h, limit)
    /\ last' = [NoCall EXCEPT !.op = op, !.argErr = err,
                              !.res = out.appErr, !.panic = out.panic,
                              !.yes = (out.err = NilErr)]
    /\ st' = [NoSt EXCEPT !.s = IF out.err.kind = "status" THEN out.err.s
                                ELSE NilStatus,
                          !.of = out.appErr]
    /\ UNCHANGED thr

CallUnaryServerErrorInterceptor(limit) ==
    \E err \in HandlerErrors :
      /\ Allocates(err) => Len(errs) < limit
      /\ \E env \in EnvsFor(err # NilErr) :
            \E out \in {UnaryServerErrorInterceptor(heap, err, env)} :
               Serve("UnaryServerErrorInterceptor", err, out, limit)

CallStreamServerErrorInterceptor(limit) ==
    \E err \in HandlerErrors :
      /\ Allocates(err) => Len(errs) < limit
      /\ \E env \in EnvsFor(err # NilErr) :
            \E out \in {StreamServerErrorInterceptor(heap, err, env)} :
               Serve("StreamServerErrorInterceptor", err, out, limit)

NextServe ==
    \/ CallUnaryServerErrorInterceptor(MaxServeErrors)
    \/ CallStreamServerErrorInterceptor(MaxServeErrors)

SpecServe == Init /\ [][NextServe]_vars

\* the web codes and the gRPC codes a caller may ask to translate: an int,
\* negative ones included, and a uint32
WebCodes == -1..MaxWebCode
GrpcCodes == 0..MaxGrpcCode

CallToGRPCCode ==
    \E code \in WebCodes :
        /\ last' = [NoCall EXCEPT !.op = "ToGRPCCode", !.code = code,
                                  !.val = ToGRPCCode(code)]
        /\ UNCHANGED <<errs, maps, st, thr>>

CallToHTTPCode ==
    \E code \in GrpcCodes :
        /\ last' = [NoCall EXCEPT !.op = "ToHTTPCode", !.code = code,
                                  !.val = ToHTTPCode(code)]
        /\ UNCHANGED <<errs, maps, st, thr>>

\* the two tables of codes
NextCodes == CallToGRPCCode \/ CallToHTTPCode

SpecCodes == Init /\ [][NextCodes]_vars

\* the int32 codes an Error may hold: both ends of int32, the ends of the
\* ranges of the checkers and their neighbours
KindCodes ==
    {-2147483647 - 1, -1, 0, 200, 399, 400, 401, 402, 403, 404, 499, 500, 501,
     599, 600, 2147483647}

\* &Error{Status: Status{Code: code}}
CallLiteralCode(limit) ==
    \E code \in KindCodes :
        \E out \in {AllocError(heap, [cause |-> NilErr, Code |-> code,
                                     Reason |-> "", Message |-> "",
                                     Metadata |-> 0, ID |-> <<>>])} :
           /\ Commit(out.h, limit)
           /\ last' = [NoCall EXCEPT !.op = "Literal", !.res = out.res,
                                     !.code = code]
           /\ UNCHANGED <<st, thr>>

CallIsClientError ==
    \E e \in Refs :
        /\ last' = [Call("IsClientError", e) EXCEPT !.yes = IsClientError(heap, e)]
        /\ UNCHANGED <<errs, maps, st, thr>>

CallIsServerError ==
    \E e \in Refs :
        /\ last' = [Call("IsServerError", e) EXCEPT !.yes = IsServerError(heap, e)]
        /\ UNCHANGED <<errs, maps, st, thr>>

CallIsAuthError ==
    \E e \in Refs :
        /\ last' = [Call("IsAuthError", e) EXCEPT !.yes = IsAuthError(heap, e)]
        /\ UNCHANGED <<errs, maps, st, thr>>

\* errors of every kind of code and the three checkers of the kind
NextKinds ==
    \/ CallLiteralCode(MaxKindErrors)
    \/ CallIsClientError
    \/ CallIsServerError
    \/ CallIsAuthError

SpecKinds == Init /\ [][NextKinds]_vars

\* struct literals that differ in code, reason and message
CallLiteralStatus(limit) ==
    \E code \in {404, 500}, reason \in {"R", "S"}, message \in {"m", "n"} :
        \E out \in {AllocError(heap, [cause |-> NilErr, Code |-> code,
                                     Reason |-> reason, Message |-> message,
                                     Metadata |-> 0, ID |-> <<>>])} :
           /\ Commit(out.h, limit)
           /\ last' = [NoCall EXCEPT !.op = "Literal", !.res = out.res,
                                     !.code = code, !.reason = reason,
                                     !.message = message]
           /\ UNCHANGED <<st, thr>>

\* the targets a caller passes to e.Is: nil, a nil *Error, errors of other
\* packages, Errors, bare and wrapped
IsTargets ==
    ForeignErrors \cup {Native(r) : r \in Refs}
    \cup {Wrapped(Native(r)) : r \in Refs}

CallIs ==
    \E e \in Refs, err \in IsTargets :
        \E out \in {Is(heap, e, err)} :
           /\ last' = [Call("Is", e) EXCEPT
                          !.argErr = err, !.panic = out.panic,
                          !.yes = IF out.panic THEN FALSE ELSE out.ret]
           /\ UNCHANGED <<errs, maps, st, thr>>

\* errors that agree or differ in code, reason, message, metadata, id and
\* cause, matched against each other
NextIs ==
    \/ CallLiteralStatus(MaxIsErrors)
    \/ CallWithCause(MaxIsErrors)
    \/ CallWithMetadata(MaxIsErrors)
    \/ CallWithID(MaxIsErrors)
    \/ CallIs

SpecIs == Init /\ [][NextIs]_vars

\* ------------------------------------------------------------------------
\* DecodeErrorID on the strings a caller may hand to it: the encoding of a
\* text of 1 to MaxFields fields, as it is or damaged
\* ------------------------------------------------------------------------

\* first fields: "f@a.go", "a.go", "f@g@a.go", "", "@"
FuncFileParts ==
    {[text |-> <<102, 64, 97, 46, 103, 111>>, fn |-> <<102>>, file |-> <<97, 46, 103, 111>>, at |-> TRUE],
     [text |-> <<97, 46, 103, 111>>, fn |-> <<>>, file |-> <<97, 46, 103, 111>>, at |-> FALSE],
     [text |-> <<102, 64, 103, 64, 97, 46, 103, 111>>, fn |-> <<102, 64, 103>>, file |-> <<97, 46, 103, 111>>, at |-> TRUE],
     [text |-> <<>>, fn |-> <<>>, file |-> <<>>, at |-> FALSE],
     [text |-> <<64>>, fn |-> <<>>, file |-> <<>>, at |-> TRUE]}

\* line and process id, read by Atoi: "10", "x", "", "-3", "+7" and the
\* 20 digits "99999999999999999999", beyond int64
AtoiParts ==
    {[text |-> <<49, 48>>, val |-> 10],
     [text |-> <<120>>, val |-> 0],
     [text |-> <<>>, val |-> 0],
     [text |-> <<45, 51>>, val |-> -3],
     [text |-> <<43, 55>>, val |-> 7],
     [text |-> <<57, 57, 57, 57, 57, 57, 57, 57, 57, 57, 57, 57, 57, 57, 57, 57, 57, 57, 57, 57>>, val |-> 0]}

\* timestamps, read by ParseInt: "1500000", "x"
TimestampParts ==
    {[text |-> <<49, 53, 48, 48, 48, 48, 48>>, val |-> 1500000],
     [text |-> <<120>>, val |-> 0]}

\* goroutine ids, read by ParseUint: "7", "-1", "+1"
GidParts ==
    {[text |-> <<55>>, val |-> 7],
     [text |-> <<45, 49>>, val |-> 0],
     [text |-> <<43, 49>>, val |-> 0]}

\* process ids: "42", ""
PidParts ==
    {[text |-> <<52, 50>>, val |-> 42],
     [text |-> <<>>, val |-> 0]}

\* random suffixes: "ab12", ""
SuffixParts == {[text |-> <<97, 98, 49, 50>>], [text |-> <<>>]}

\* the first n of six fields, and fields "z" beyond the sixth
Fields(six, n) == [i \in 1..n |-> IF i <= 6 THEN six[i] ELSE [text |-> <<122>>]]

\* the fields joined by colons
RECURSIVE Join(_)
Join(parts) ==
    IF Len(parts) = 1 THEN parts[1].text
    ELSE parts[1].text \o <<Colon>> \o Join(Tail(parts))

\* what may happen to an encoding on its way: a line break after the first
\* quantum, which the decoder skips; a byte outside the alphabet in front; a
\* symbol too many at the end
Damages == {"none", "newline", "symbol", "long"}

Damage(id, damage) ==
    CASE damage = "none" -> id
      [] damage = "newline" ->
           IF Len(id) < 4 THEN id \o <<10>>
           ELSE SubSeq(id, 1, 4) \o <<10>> \o SubSeq(id, 5, Len(id))
      [] damage = "symbol" -> <<33>> \o id
      [] damage = "long" -> id \o <<65>>

Sources ==
    {[parts |-> Fields(<<a, b, c, d, e, f>>, n), damage |-> damage] :
        a \in FuncFileParts, b \in AtoiParts, c \in TimestampParts,
        d \in GidParts, e \in PidParts, f \in SuffixParts,
        n \in 1..MaxFields, damage \in Damages}

IDOfSource(src) == Damage(EncodeToString(Join(src.parts)), src.damage)

\* the caller holds one string
InitDecode ==
    /\ errs = <<>>
    /\ maps = <<>>
    /\ st = NoSt
    /\ thr = NoThreads
    /\ last \in {[NoCall EXCEPT !.src = src, !.argId = IDOfSource(src)] :
                    src \in Sources}

\* str keeps what produced the id: "none" for an id given as input
CallDecodeErrorID ==
    /\ last.op \in {"none", "generateErrorID", "generateFallbackErrorID"}
    /\ \E out \in {DecodeErrorID(last.argId)} :
          last' = [last EXCEPT !.op = "DecodeErrorID", !.str = last.op,
                               !.dec = out]
    /\ UNCHANGED <<errs, maps, st, thr>>

NextDecode == CallDecodeErrorID

SpecDecode == InitDecode /\ [][NextDecode]_vars

\* The generator on its own.  A call is the skip the public function passes
\* to generateErrorID and the frames above generateErrorID: New passes 2 and
\* GetID passes 3, and GetID called with nothing above it (a goroutine whose
\* entry point it is) makes runtime.Caller report !ok.  The process state
\* says which of the three probes fail.
GenCalls ==
    {[skip |-> 2, callers |-> <<FrameNew>> \o UserStack(10)],
     [skip |-> 3, callers |-> <<FrameGetID>> \o UserStack(10)],
     [skip |-> 3, callers |-> <<FrameGetID>>]}

GenTimes == {1500000}
GenGids == {MainGid, 42}

GenEnvs ==
    {[Env(ts, rnd, gid) EXCEPT !.fnOk = fnOk, !.gidOk = gidOk,
                               !.randOk = randOk, !.ts2 = ts2] :
        ts \in GenTimes, rnd \in RandBufs, gid \in GenGids,
        fnOk \in BOOLEAN, gidOk \in BOOLEAN, randOk \in BOOLEAN,
        ts2 \in {1500000, 1500001}}

CallGenerateErrorID ==
    /\ last.op = "none"
    /\ \E call \in GenCalls, env \in GenEnvs :
          \E id \in {generateErrorID(call.skip, call.callers, env)} :
             last' = [NoCall EXCEPT !.op = "generateErrorID", !.ret = id,
                                    !.argId = id,
                                    !.src = [call |-> call, env |-> env]]
    /\ UNCHANGED <<errs, maps, st, thr>>

CallGenerateFallbackErrorID ==
    /\ last.op = "none"
    /\ \E env \in GenEnvs :
          \E id \in {generateFallbackErrorID(env)} :
             last' = [NoCall EXCEPT !.op = "generateFallbackErrorID",
                                    !.ret = id, !.argId = id,
                                    !.src = [call |-> [skip |-> 0,
                                                       callers |-> <<>>],
                                             env |-> env]]
    /\ UNCHANGED <<errs, maps, st, thr>>

\* The loop of TestErrorIDUniqueness: New called again and again from one
\* line of one goroutine.  Each pass reads the clock (twice over when the
\* random source fails) and the random source; the clock is the wall clock
\* and may be read twice with the same value.
LoopRandBufs == {<<18, 52, 86, 120>>, <<154, 188, 222, 240>>}

LoopEnvs ==
    {[Env(ts, rnd, MainGid) EXCEPT !.randOk = randOk] :
        ts \in Times, rnd \in LoopRandBufs, randOk \in BOOLEAN}

CallLoopNew ==
    /\ Len(errs) < MaxLoopErrors
    /\ \E env \in LoopEnvs :
          \E out \in {New(heap, 400, "TEST", "m", UserStack(334), env)} :
             /\ Commit(out.h, MaxLoopErrors)
             /\ last' = [NoCall EXCEPT !.op = "New", !.res = out.res,
                                       !.code = 400, !.reason = "TEST",
                                       !.message = "m"]
             /\ UNCHANGED <<st, thr>>

NextLoop == CallLoopNew

SpecLoop == Init /\ [][NextLoop]_vars

NextGen ==
    \/ CallGenerateErrorID
    \/ CallGenerateFallbackErrorID
    \/ CallDecodeErrorID

SpecGen == Init /\ [][NextGen]_vars

\* Goroutines sharing one *Error whose ID is empty.  Each calls GetID,
\* GRPCStatus or FromError once; the calls are interleaved statement by
\* statement, every read and write of e.ID being one step (the code holds
\* no lock and uses no atomic).  A goroutine is
\*   at "call"      before the test  e.ID == ""
\*   at "generate"  after the test was true, before  e.ID = generateErrorID(3)
\*   at "read"      before the read of e.ID that makes its result
\*   at "done"      with ret, the id it got
MaxThreads == 2

Threads == 1..MaxThreads

RaceOps == {"GetID", "GRPCStatus", "FromError"}

RaceFrame(op) ==
    IF op = "GetID" THEN FrameGetID
    ELSE IF op = "GRPCStatus" THEN FrameGRPCStatus
    ELSE FrameFromError(434)

\* goroutine t runs as goroutine number MainGid + t
Gid(t) == MainGid + t

Shared ==
    [cause |-> NilErr, Code |-> 404, Reason |-> "R", Message |-> "m",
     Metadata |-> 0, ID |-> <<>>]

InitRace ==
    /\ errs = <<Shared>>
    /\ maps = <<>>
    /\ st = NoSt
    /\ last = NoCall
    /\ thr \in [Threads -> {[op |-> op, pc |-> "call", ret |-> <<>>] :
                             op \in RaceOps}]

\* if e.ID == ""
RaceTest(t) ==
    /\ thr[t].pc = "call"
    /\ thr' = [thr EXCEPT ![t].pc =
                  IF errs[1].ID = <<>> THEN "generate" ELSE "read"]
    /\ UNCHANGED <<errs, maps, st, last>>

\* e.ID = generateErrorID(3)
RaceStore(t) ==
    \E ts \in Times, rnd \in RandBufs, line \in UserLines :
        /\ thr[t].pc = "generate"
        /\ errs' = [errs EXCEPT ![1].ID =
                       generateErrorID(3, <<RaceFrame(thr[t].op)>> \o UserStack(line),
                                       Env(ts, rnd, Gid(t)))]
        /\ thr' = [thr EXCEPT ![t].pc = "read"]
        /\ UNCHANGED <<maps, st, last>>

\* return e.ID; metadata["error_id"] = e.ID; the ID of the *Error returned
RaceRead(t) ==
    /\ thr[t].pc = "read"
    /\ thr' = [thr EXCEPT ![t].pc = "done", ![t].ret = errs[1].ID]
    /\ UNCHANGED <<errs, maps, st, last>>

NextRace ==
    \E t \in Threads : RaceTest(t) \/ RaceStore(t) \/ RaceRead(t)

SpecRace == InitRace /\ [][NextRace]_vars

\* ------------------------------------------------------------------------
\* Claims.  Each is a predicate on the state a call leaves behind: last
\* names the call, its receiver as it was before, its arguments and results.
\* ------------------------------------------------------------------------

Md(i) == MapOf(heap, errs[i].Metadata)

SameStatus(a, b) ==
    a.Code = b.Code /\ a.Reason = b.Reason /\ a.Message = b.Message

Derivations == {"WithCause", "WithMetadata", "WithID"}

\* the call was FromError on the status rendered from e.WithMetadata(m)
RoundTripped == last.op = "FromError" /\ last.onSt /\ st.base # 0

\* C1 as stated: for every e and every m, FromError of the status of
\* e.WithMetadata(m) is an Error with metadata m and the id of e.
C1_AnyErrorAnyMap ==
    RoundTripped =>
        /\ last.res # 0
        /\ Md(last.res) = st.m
        /\ errs[last.res].ID = errs[st.base].ID

\* C1 amended: the same for every e whose id is set and whose code does not
\* translate to gRPC OK, and every m without the key "error_id".
C1_RoundTrip ==
    (/\ RoundTripped
     /\ errs[st.base].ID # <<>>
     /\ ToGRPCCode(errs[st.base].Code) # OK
     /\ ErrorIDKey \notin DOMAIN st.m) =>
        /\ last.res # 0
        /\ Md(last.res) = st.m
        /\ ErrorIDKey \notin DOMAIN Md(last.res)
        /\ errs[last.res].ID = errs[st.base].ID

C1_Witness ==
    /\ RoundTripped
    /\ errs[st.base].ID # <<>>
    /\ ToGRPCCode(errs[st.base].Code) # OK
    /\ st.m = [k \in {"k"} |-> V1]
    /\ last.res # 0
    /\ Md(last.res) = st.m

\* C2: an id that is set survives Clone, WithCause, WithMetadata, GetID,
\* GRPCStatus and FromError: the receiver keeps it and the result carries it.
C2_IdPreserved ==
    /\ (last.op \in {"Clone", "WithCause", "WithMetadata"} /\ last.recv # 0
        /\ last.pre.ID # <<>>) =>
           errs[last.recv].ID = last.pre.ID /\ errs[last.res].ID = last.pre.ID
    /\ (last.op = "GetID" /\ last.pre.ID # <<>>) =>
           errs[last.recv].ID = last.pre.ID /\ last.ret = last.pre.ID
    /\ (last.op = "GRPCStatus" /\ last.pre.ID # <<>>) =>
           /\ errs[last.recv].ID = last.pre.ID
           /\ st.id = last.pre.ID
           /\ st.s # NilStatus =>
                st.s.Details[1].Metadata[ErrorIDKey] = last.pre.ID
    /\ (last.op = "FromError" /\ ~last.onSt /\ last.recv # 0
        /\ last.pre.ID # <<>>) =>
           last.res = last.recv /\ errs[last.res].ID = last.pre.ID
    /\ (last.op = "FromError" /\ last.onSt /\ last.res # 0) =>
           errs[last.res].ID = st.id /\ errs[st.of].ID = st.id

\* an error made by FromError from a status carries the id of the error
\* that was rendered, two derivations away from the first error
C2_Witness ==
    /\ last.op = "FromError" /\ last.onSt /\ last.res # 0
    /\ last.res # st.of
    /\ errs[last.res].ID = errs[st.of].ID
    /\ errs[st.of].ID # <<>>

\* GetID on c and then on e, for any two readings of time and randomness
SameLazyID(c, e) ==
    \A env1 \in Envs, env2 \in Envs, line \in UserLines :
        LET first == GetID(heap, c, UserStack(line), env1)
            second == GetID(first.h, e, UserStack(line), env2)
        IN first.ret = second.ret

\* C3 as stated: e.WithMetadata(m).GetID() equals e.GetID() for every e,
\* also one whose id is still empty.
C3_AnyError ==
    last.op = "WithMetadata" => SameLazyID(last.res, last.recv)

\* C3 amended: e.WithMetadata(m).GetID() equals e.GetID() for every e whose
\* id is set.
C3_IdStable ==
    (last.op = "WithMetadata" /\ last.pre.ID # <<>>) =>
        SameLazyID(last.res, last.recv)

C3_Witness ==
    /\ last.op = "WithMetadata"
    /\ last.pre.ID # <<>>
    /\ Md(last.res) # EmptyMap
    /\ errs[last.res].ID = errs[last.recv].ID

\* C4: GetID returns a non-empty id and leaves it stored; when an id is
\* stored already it returns that one and changes nothing.
C4_LazyIdOnce ==
    last.op = "GetID" =>
        /\ last.ret # <<>>
        /\ errs[last.recv].ID = last.ret
        /\ last.pre.ID # <<>> =>
             last.ret = last.pre.ID /\ errs[last.recv] = last.pre
        /\ last.pre.ID = <<>> =>
             errs[last.recv] = [last.pre EXCEPT !.ID = last.ret]

\* a later GetID on an error whose id an earlier GetID made
C4_Witness ==
    /\ last.op = "GetID"
    /\ last.pre.ID # <<>>
    /\ last.ret = last.pre.ID
    /\ DecodeErrorID(last.ret).info.Function
         = <<104, 97, 110, 100, 108, 101, 114>>

\* C5: when all goroutines that called GetID, GRPCStatus or FromError on
\* the shared Error have returned, they all got the same id, the one the
\* Error holds.
C5_OneID ==
    (\A t \in Threads : thr[t].pc = "done") =>
        \A t \in Threads : thr[t].ret = errs[1].ID

\* C6: WithCause, WithMetadata and WithID leave the receiver as it was, its
\* map included, and return another value.
C6_CopyOnWrite ==
    last.op \in Derivations =>
        /\ errs[last.recv] = last.pre
        /\ Md(last.recv) = last.preMap
        /\ last.res # 0
        /\ last.res # last.recv

C6_Witness ==
    /\ last.op \in Derivations
    /\ errs[last.res] # errs[last.recv]
    /\ errs[last.recv] = last.pre

\* C7: Clone(nil) is nil; Clone(e) is a new Error with the fields of e and
\* a map of its own with the same entries, so that an edit of either map
\* leaves the other one as it was.
C7_Clone ==
    /\ (last.op = "Clone" /\ last.recv = 0) => last.res = 0
    /\ (last.op = "Clone" /\ last.recv # 0) =>
        /\ last.res # 0
        /\ last.res # last.recv
        /\ SameStatus(errs[last.res], errs[last.recv])
        /\ errs[last.res].ID = errs[last.recv].ID
        /\ errs[last.res].cause = errs[last.recv].cause
        /\ Md(last.res) = Md(last.recv)
        /\ errs[last.res].Metadata # 0
        /\ \A i \in Refs \ {last.res} :
             errs[i].Metadata # errs[last.res].Metadata
        /\ errs[last.recv] = last.pre
    /\ (last.op \in {"MapSet", "MapDelete"} /\ last.res # 0) =>
        Md(last.recv) = last.preMap \/ Md(last.res) = last.preRes

\* the original's map was edited after Clone and the clone kept its entries
C7_Witness ==
    /\ last.op \in {"MapSet", "MapDelete"}
    /\ last.res # 0
    /\ Md(last.recv) # last.preMap
    /\ Md(last.res) = last.preRes
    /\ Md(last.res) # EmptyMap

\* C8: the metadata of e.WithMetadata(m) has exactly the entries of m; code,
\* reason, message, cause and id are those of e.
C8_MetadataReplaced ==
    last.op = "WithMetadata" =>
        /\ Md(last.res) = MapOf(heap, last.argMap)
        /\ SameStatus(errs[last.res], last.pre)
        /\ errs[last.res].cause = last.pre.cause
        /\ errs[last.res].ID = last.pre.ID

\* a key of the prior metadata is gone
C8_Witness ==
    /\ last.op = "WithMetadata"
    /\ DOMAIN last.preMap \ DOMAIN Md(last.res) # {}
    /\ Md(last.res) = MapOf(heap, last.argMap)

\* what GetID and ID return for the error r, whatever time and randomness
ReturnsID(r, id) ==
    \A env \in Envs, line \in UserLines :
        /\ GetID(heap, r, UserStack(line), env).ret = id
        /\ ID(heap, Native(r), UserStack(line), env).ret = id

Constructors == {"New", "Newf", "Errorf"} \cup ConvNames

\* C9 as stated: for every s, e.WithID(s) carries s, and GetID and ID
\* return s; ID of a fresh error is its ID field.
C9_AnyID ==
    /\ last.op = "WithID" =>
         errs[last.res].ID = last.argId /\ ReturnsID(last.res, last.argId)
    /\ last.op \in Constructors => ReturnsID(last.res, errs[last.res].ID)

\* C9 amended: e.WithID(s) carries s for every s; GetID and ID return s for
\* every non-empty s; ID of a fresh error is its ID field.
C9_WithID ==
    /\ last.op = "WithID" => errs[last.res].ID = last.argId
    /\ (last.op = "WithID" /\ last.argId # <<>>) =>
         ReturnsID(last.res, last.argId)
    /\ last.op \in Constructors => ReturnsID(last.res, errs[last.res].ID)

C9_Witness ==
    /\ last.op = "WithID"
    /\ last.argId = CustomID
    /\ last.pre.ID # <<>>
    /\ last.pre.ID # CustomID
    /\ errs[last.res].ID = CustomID

\* C10: a constructor returns an Error with a non-empty id that
\* DecodeErrorID decodes, the given code, reason and message, no metadata.
C10_Constructed ==
    last.op \in Constructors =>
        /\ last.res # 0
        /\ errs[last.res].ID # <<>>
        /\ DecodeErrorID(errs[last.res].ID).err = "none"
        /\ errs[last.res].Code = last.code
        /\ errs[last.res].Reason = last.reason
        /\ errs[last.res].Message = last.message
        /\ Md(last.res) = EmptyMap
        /\ errs[last.res].cause = NilErr

C10_Witness ==
    /\ last.op = "ClientClosed"
    /\ errs[last.res].Code = 499
    /\ DecodeErrorID(errs[last.res].ID).err = "none"

\* the function name after its last dot, the base name of the file and the
\* line of a frame: what an id records of it
CallSite(frame) ==
    [Function |-> Slice(frame.fn, findLastDot(frame.fn) + 1, Len(frame.fn)),
     File |-> Base(frame.file), Line |-> frame.line]

\* what DecodeErrorID reads of the call site from an id
SiteOf(id) ==
    [Function |-> DecodeErrorID(id).info.Function,
     File |-> DecodeErrorID(id).info.File,
     Line |-> DecodeErrorID(id).info.Line]

\* C11: the id minted by New, Newf or Errorf records the call site of the
\* constructor's caller, function, file and line, never a frame inside the
\* errors package.
C11_CallerSite ==
    last.op \in {"New", "Newf", "Errorf"} =>
        \E line \in UserLines :
            SiteOf(errs[last.res].ID) = CallSite(UserFrame(line))

\* C12: FromError is total: for every error value it is given it returns a
\* non-nil Error and never fails or panics.
C12_Total == last.op = "FromError" => (~last.panic /\ last.res # 0)

\* the calls that take an error value
Probes == {"FromError", "Code", "Reason", "ID"}

MintedAt(ref, line) ==
    /\ errs[ref].ID # <<>>
    /\ DecodeErrorID(errs[ref].ID).err = "none"
    /\ SiteOf(errs[ref].ID).Function = <<70, 114, 111, 109, 69, 114, 114, 111, 114>>
    /\ SiteOf(errs[ref].ID).Line = line

\* C14: for an error that holds neither an Error nor a gRPC status,
\* FromError returns a new Error with code 500, empty reason, the text of the
\* error as message, no metadata and a fresh non-empty id.
C14_Generic ==
    \A text \in {"boom", "wrap: boom"} :
        (/\ last.op = "FromError"
         /\ last.argErr \in {Generic("boom"), Wrapped(Generic("boom"))}
         /\ ErrorText(last.argErr) = text) =>
            /\ ~last.panic
            /\ last.res # 0
            /\ errs[last.res].Code = 500
            /\ errs[last.res].Reason = ""
            /\ errs[last.res].Message = text
            /\ errs[last.res].Metadata = 0
            /\ errs[last.res].cause = NilErr
            /\ MintedAt(last.res, 445)

C14_Witness ==
    /\ last.op = "FromError"
    /\ last.argErr = Wrapped(Generic("boom"))
    /\ errs[last.res].Message = "wrap: boom"
    /\ errs[last.res].Code = 500

\* errs[ref] is what it was before the call, but for an id given to an
\* error that had none
OnlyIDSet(ref) ==
    /\ errs[ref].ID # <<>>
    /\ errs[ref] = IF last.pre.ID = <<>>
                   THEN [last.pre EXCEPT !.ID = errs[ref].ID] ELSE last.pre
    /\ Md(ref) = last.preMap

\* C15: when the chain of err holds an Error x, behind any number of
\* wrappers, FromError returns x itself, its fields as they were, its id
\* kept if it had one and stored in x if it had none; Code, Reason and the
\* IsXxx checkers give the code and reason of x.
C15_Native ==
    \A r \in Refs :
        last.argErr \in {Native(r), Wrapped(Native(r)), Wrapped(Wrapped(Native(r)))} =>
            /\ last.op \in Probes \cup {"IsChecker"} => ~last.panic
            /\ last.op = "FromError" => (last.res = r /\ OnlyIDSet(r))
            /\ last.op = "Code" => (last.val = last.pre.Code /\ OnlyIDSet(r))
            /\ last.op = "Reason" => (last.str = last.pre.Reason /\ OnlyIDSet(r))
            /\ last.op = "IsChecker" =>
                 (last.yes <=> (last.pre.Code = ConvCode(last.reason)))

C15_Witness ==
    /\ last.op = "FromError"
    /\ last.argErr = Wrapped(Wrapped(Native(1)))
    /\ last.res = 1
    /\ last.pre.ID = <<>>
    /\ errs[1].ID # <<>>
    /\ errs[1].Code = 404

\* the lists of details whose first structured Status payload holds md
DetailsWith(md) ==
    {<<Payload("Status", md)>>, <<OtherDetail, Payload("AnyStatus", md)>>,
     <<Payload("Status", md), Payload("Status", EmptyMap)>>}

\* FromError was called on an error that carries a gRPC status with the
\* details ds, itself or behind a wrapper
FromRemote(ds) ==
    /\ last.op = "FromError"
    /\ last.argErr \in RemoteErrors
    /\ \E s \in RemoteStatuses :
         /\ s.Details = ds
         /\ last.argErr \in {StatusErr(s), Wrapped(StatusErr(s))}

\* code, reason and message of the result are those of the payload
FromPayload(ref) ==
    /\ ~last.panic
    /\ ref # 0
    /\ errs[ref].Code = 409
    /\ errs[ref].Reason = "PR"
    /\ errs[ref].Message = "pm"

\* C16 as stated: code, reason and message come from the payload; whenever
\* the payload metadata holds the key error_id, with any value, the empty
\* string included, the id of the result is that value and the key is not in
\* the result's metadata; without the key the id is fresh and non-empty.
C16_AnyValue ==
    \A md \in PayloadMaps : \A ds \in DetailsWith(md) :
        FromRemote(ds) =>
            /\ FromPayload(last.res)
            /\ ErrorIDKey \in DOMAIN md =>
                 /\ errs[last.res].ID = md[ErrorIDKey]
                 /\ ErrorIDKey \notin DOMAIN Md(last.res)
            /\ ErrorIDKey \notin DOMAIN md => MintedAt(last.res, 454)

\* C16 amended: code, reason and message come from the payload; when the
\* payload metadata holds error_id with a non-empty value, the id of the
\* result is that value and the result's metadata is the payload's without
\* that key; when the key is absent or its value is the empty string, the id
\* is fresh and non-empty and the result's metadata is the payload's as it
\* is.
C16_Payload ==
    \A md \in PayloadMaps : \A ds \in DetailsWith(md) :
        FromRemote(ds) =>
            /\ FromPayload(last.res)
            /\ (ErrorIDKey \in DOMAIN md /\ md[ErrorIDKey] # <<>>) =>
                 /\ errs[last.res].ID = md[ErrorIDKey]
                 /\ Md(last.res) = [k \in DOMAIN md \ {ErrorIDKey} |-> md[k]]
            /\ (ErrorIDKey \notin DOMAIN md \/ md[ErrorIDKey] = <<>>) =>
                 /\ MintedAt(last.res, 454)
                 /\ Md(last.res) = md

C16_Witness ==
    /\ FromRemote(<<OtherDetail,
                    Payload("AnyStatus", [k \in {"k", ErrorIDKey} |-> V1])>>)
    /\ last.argErr.kind = "wrap"
    /\ errs[last.res].ID = V1
    /\ Md(last.res) = [k \in {"k"} |-> V1]
    /\ errs[last.res].Code = 409

\* the lists of details without a structured Status payload
BareDetails == {<<>>, <<OtherDetail>>}

\* the result of FromError on an error that carries the status s without a
\* structured payload, but for its message
FromBare(ref, s) ==
    /\ ~last.panic
    /\ ref # 0
    /\ errs[ref].Code = ToHTTPCode(s.Code)
    /\ errs[ref].Reason = ""
    /\ errs[ref].Metadata = 0
    /\ errs[ref].cause = NilErr
    /\ MintedAt(ref, 454)

\* C17 as stated: when err carries a gRPC status with code c and no
\* structured Status detail, FromError returns an Error with code
\* ToHTTPCode(c), empty reason, the message of the status, no metadata and a
\* fresh non-empty id.
C17_StatusMessage ==
    \A s \in RemoteStatuses :
        (/\ last.op = "FromError"
         /\ s.Details \in BareDetails
         /\ last.argErr \in {StatusErr(s), Wrapped(StatusErr(s))}) =>
            /\ FromBare(last.res, s)
            /\ errs[last.res].Message = s.Message

\* C17 amended: the same, with the message of the status when err is the
\* status error itself and the text of err.Error() when err wraps it.
C17_Bare ==
    \A s \in RemoteStatuses :
        (/\ last.op = "FromError"
         /\ s.Details \in BareDetails
         /\ last.argErr \in {StatusErr(s), Wrapped(StatusErr(s))}) =>
            /\ FromBare(last.res, s)
            /\ last.argErr = StatusErr(s) => errs[last.res].Message = "m"
            /\ last.argErr = Wrapped(StatusErr(s)) =>
                 errs[last.res].Message =
                     "wrap: rpc error: code = " \o GrpcCodeName(s.Code) \o " desc = m"

C17_Witness ==
    /\ last.op = "FromError"
    /\ last.argErr.kind = "wrap"
    /\ last.argErr.inner.kind = "status"
    /\ last.argErr.inner.s.Code = Canceled
    /\ errs[last.res].Code = 499
    /\ errs[last.res].Message = "wrap: rpc error: code = Canceled desc = m"

\* the status has the translated code and the message of e and one detail:
\* code, reason and message of e, and e's metadata plus error_id -> e's id
RenderedFrom(s, e) ==
    /\ s # NilStatus
    /\ s.Code = ToGRPCCode(last.pre.Code)
    /\ s.Message = last.pre.Message
    /\ Len(s.Details) = 1
    /\ s.Details[1].type = "Status"
    /\ s.Details[1].Code = last.pre.Code
    /\ s.Details[1].Reason = last.pre.Reason
    /\ s.Details[1].Message = last.pre.Message
    /\ s.Details[1].Metadata =
         [k \in DOMAIN last.preMap \cup {ErrorIDKey} |->
             IF k = ErrorIDKey THEN errs[e].ID ELSE last.preMap[k]]

\* C18 as stated: for every Error e, GRPCStatus(e) is a status with the
\* code ToGRPCCode(e.Code), the message of e and exactly one detail, which
\* holds code, reason and message of e and e's metadata plus error_id -> the
\* id of e; e's own map is unchanged and only e's id may change.
C18_AnyCode ==
    last.op = "GRPCStatus" =>
        (RenderedFrom(st.s, last.recv) /\ OnlyIDSet(last.recv))

\* C18 amended: the same for every e whose code is not 200; for code 200
\* GRPCStatus returns no status at all; in both cases e's own map is
\* unchanged and only e's id may change.
C18_Rendered ==
    last.op = "GRPCStatus" =>
        /\ OnlyIDSet(last.recv)
        /\ last.pre.Code # 200 => RenderedFrom(st.s, last.recv)
        /\ last.pre.Code = 200 => st.s = NilStatus

C18_Witness ==
    /\ last.op = "GRPCStatus"
    /\ last.pre.ID = <<>>
    /\ last.preMap = [k \in {"k"} |-> V1]
    /\ st.s # NilStatus
    /\ st.s.Code = NotFoundGrpc
    /\ st.s.Details[1].Metadata[ErrorIDKey] = errs[last.recv].ID
    /\ st.s.Details[1].Metadata["k"] = V1
    /\ ErrorIDKey \notin DOMAIN Md(last.recv)

\* the web codes ToGRPCCode has a case for, and the gRPC codes of grpc's
\* codes package, OK = 0 to Unauthenticated = 16
WebTable == {200, 400, 401, 403, 404, 409, 429, 500, 501, 503, 504}
GrpcTable == 0..16

\* C19: ToGRPCCode returns Unknown for every web code outside its table and
\* ToHTTPCode returns 500 for every gRPC code that is not one of the 17
\* standard ones; neither panics.
C19_Defaults ==
    /\ (last.op = "ToGRPCCode" /\ last.code \notin WebTable) =>
         (~last.panic /\ last.val = UnknownGrpc)
    /\ (last.op = "ToHTTPCode" /\ last.code \notin GrpcTable) =>
         (~last.panic /\ last.val = 500)

C19_Witness ==
    /\ last.op = "ToGRPCCode"
    /\ last.code = 418
    /\ last.val = UnknownGrpc

\* C20: the tables hold these pairs in both directions: 404 and NotFound,
\* 409 and Aborted, 429 and ResourceExhausted, 501 and Unimplemented, 503 and
\* Unavailable, 504 and DeadlineExceeded, 499 and Canceled.
C20_Pairs ==
    \A pair \in {<<404, NotFoundGrpc>>, <<409, Aborted>>,
                 <<429, ResourceExhausted>>, <<501, Unimplemented>>,
                 <<503, Unavailable>>, <<504, DeadlineExceeded>>,
                 <<499, Canceled>>} :
        /\ (last.op = "ToGRPCCode" /\ last.code = pair[1]) => last.val = pair[2]
        /\ (last.op = "ToHTTPCode" /\ last.code = pair[2]) => last.val = pair[1]

\* C21: for every web code c that ToGRPCCode has a case for,
\* ToHTTPCode(ToGRPCCode(c)) = c.
C21_WebTrip ==
    (last.op = "ToGRPCCode" /\ last.code \in WebTable) =>
        ToHTTPCode(last.val) = last.code

C21_Witness ==
    /\ last.op = "ToGRPCCode"
    /\ last.code = 409
    /\ last.val = Aborted
    /\ ToHTTPCode(last.val) = 409

\* C22: for an Error with any int32 code, IsClientError is true exactly
\* when 400 <= code < 500, IsServerError exactly when code >= 500,
\* IsAuthError exactly when the code is 401 or 403; so the first two are
\* never both true and IsAuthError implies IsClientError.
C22_Kinds ==
    /\ last.op = "IsClientError" =>
         (last.yes <=> (400 <= last.pre.Code /\ last.pre.Code < 500))
    /\ last.op = "IsServerError" => (last.yes <=> last.pre.Code >= 500)
    /\ last.op = "IsAuthError" => (last.yes <=> last.pre.Code \in {401, 403})
    /\ \A e \in Refs :
         /\ ~(IsClientError(heap, e) /\ IsServerError(heap, e))
         /\ IsAuthError(heap, e) => IsClientError(heap, e)

C22_Witness ==
    /\ last.op = "IsClientError"
    /\ last.pre.Code = 499
    /\ last.yes
    /\ ~IsServerError(heap, last.recv)
    /\ \E e \in Refs : errs[e].Code = 2147483647 /\ IsServerError(heap, e)

\* e and x have the same code and the same reason
SameKind(e, x) ==
    errs[e].Code = errs[x].Code /\ errs[e].Reason = errs[x].Reason

\* C23: e.Is(target) is true exactly when the first Error of target's
\* Unwrap chain has the code and the reason of e, whatever its message,
\* metadata, id and cause, and false when the chain holds no Error; between
\* two Errors the relation is reflexive and symmetric.
C23_Is ==
    /\ last.op = "Is" =>
         /\ ~last.panic
         /\ \A x \in Refs :
              last.argErr \in {Native(x), Wrapped(Native(x))} =>
                  (last.yes <=> SameKind(last.recv, x))
         /\ last.argErr \in ForeignErrors => ~last.yes
    /\ \A a \in Refs, b \in Refs :
         /\ Is(heap, a, Native(a)).ret
         /\ Is(heap, a, Native(b)).ret <=> Is(heap, b, Native(a)).ret

\* the string decoded last is valid standard base64
ValidSource == last.src.damage \in {"none", "newline"}

\* C24: DecodeErrorID never panics: it returns an error when the input is
\* not valid standard base64 and when the decoded text has fewer than 6
\* colon-delimited fields, and no error when the text has 6 fields or more.
C24_Decodes ==
    last.op = "DecodeErrorID" =>
        /\ last.dec.err \in {"none", "base64", "format"}
        /\ ~ValidSource => (last.dec.err = "base64" /\ last.dec.nil)
        /\ (ValidSource /\ Len(last.src.parts) < 6) =>
             (last.dec.err = "format" /\ ~last.dec.nil)
        /\ (ValidSource /\ Len(last.src.parts) >= 6) =>
             (last.dec.err = "none" /\ ~last.dec.nil)

C24_Witness ==
    /\ last.op = "DecodeErrorID"
    /\ last.src.damage = "newline"
    /\ Len(last.src.parts) = 6
    /\ last.src.parts[2].text = <<120>>
    /\ last.dec.err = "none"

\* C25: of a decoded text with at least 6 fields, function and file are the
\* parts of field 1 before and after its last '@', "unknown" and the whole
\* field when it has none; line, timestamp, goroutine id and process id are
\* the integer values of fields 2 to 5, 0 for a field that is no integer,
\* and the decode does not fail for it; the random suffix is field 6 as it
\* is; fields beyond the sixth are ignored.
C25_Fields ==
    (last.op = "DecodeErrorID" /\ ValidSource /\ Len(last.src.parts) >= 6) =>
        /\ last.dec.err = "none"
        /\ last.dec.info.Function =
             IF last.src.parts[1].at THEN last.src.parts[1].fn ELSE Unknown
        /\ last.dec.info.File = last.src.parts[1].file
        /\ last.dec.info.Line = last.src.parts[2].val
        /\ last.dec.info.Timestamp = last.src.parts[3].val
        /\ last.dec.info.GoroutineID = last.src.parts[4].val
        /\ last.dec.info.ProcessID = last.src.parts[5].val
        /\ last.dec.info.RandomSuffix = last.src.parts[6].text
        /\ last.dec.info.Raw = Join(last.src.parts)

C25_Witness ==
    /\ last.op = "DecodeErrorID"
    /\ Len(last.src.parts) = 7
    /\ last.src.parts[1].fn = <<102, 64, 103>>
    /\ last.dec.info.Function = <<102, 64, 103>>
    /\ last.src.parts[2].text = <<45, 51>>
    /\ last.dec.info.Line = -3
    /\ last.src.parts[4].text = <<45, 49>>
    /\ last.dec.info.GoroutineID = 0
    /\ last.dec.info.RandomSuffix = <<97, 98, 49, 50>>

\* ------------------------------------------------------------------------
\* C26: the codec round trip
\* ------------------------------------------------------------------------

\* the frame runtime.Caller reports to a generation: the frame skip - 1
\* places above generateErrorID, if the stack is that deep
CallerAvailable(call) == call.skip - 1 <= Len(call.callers)

CallerFrame(call) == call.callers[call.skip - 1]

\* the seven values a generation serializes
Serialized(call, env) ==
    [Function |-> IF CallerAvailable(call) /\ env.fnOk
                  THEN CallSite(CallerFrame(call)).Function
                  ELSE Unknown,
     File |-> IF CallerAvailable(call)
              THEN CallSite(CallerFrame(call)).File
              ELSE Unknown,
     Line |-> IF CallerAvailable(call) THEN CallerFrame(call).line ELSE 0,
     Timestamp |-> env.ts,
     GoroutineID |-> IF env.gidOk THEN env.gid ELSE 0,
     ProcessID |-> env.pid,
     RandomSuffix |-> IF env.randOk THEN HexBytes(env.rnd)
                      ELSE HexNat(Mask32(env.ts2))]

SevenFields ==
    {"Function", "File", "Line", "Timestamp", "GoroutineID", "ProcessID",
     "RandomSuffix"}

DecodedGenerated ==
    /\ last.op = "DecodeErrorID"
    /\ last.str = "generateErrorID"

\* C26: DecodeErrorID of an identifier made by generateErrorID succeeds and
\* returns exactly the function, file, line, timestamp, goroutine id,
\* process id and random suffix that were serialized; function and file are
\* not empty, the line is not negative, and the identifier is valid base64
\* of a text with at least six colon-separated fields and an '@'.
C26_RoundTrip ==
    DecodedGenerated =>
        /\ last.dec.err = "none"
        /\ ~last.dec.nil
        /\ \A f \in SevenFields :
              last.dec.info[f] = Serialized(last.src.call, last.src.env)[f]
        /\ last.dec.info.Function # <<>>
        /\ last.dec.info.File # <<>>
        /\ last.dec.info.Line >= 0
        /\ DecodeString(last.ret).ok
        /\ Len(Split(DecodeString(last.ret).bytes)) >= 6
        /\ \E i \in 1..Len(DecodeString(last.ret).bytes) :
              DecodeString(last.ret).bytes[i] = At

\* an identifier of a call site in user code, made with every probe
\* working, has been decoded
C26_Witness ==
    /\ DecodedGenerated
    /\ last.dec.err = "none"
    /\ last.src.call.skip = 3
    /\ CallerAvailable(last.src.call)
    /\ last.src.env.fnOk /\ last.src.env.gidOk /\ last.src.env.randOk
    /\ last.dec.info.Line = 10
    /\ last.dec.info.GoroutineID = 42

\* ------------------------------------------------------------------------
\* C27: the fallback identifier
\* ------------------------------------------------------------------------

HasPrefix(s, prefix) ==
    /\ Len(s) >= Len(prefix)
    /\ SubSeq(s, 1, Len(prefix)) = prefix

DecodedFallback ==
    /\ last.op = "DecodeErrorID"
    /\ last.str = "generateFallbackErrorID"

\* C27: an identifier made by generateFallbackErrorID is base64 of
\* "fallback:<timestamp>:<process id>:<random integer>", is told apart by the
\* marker "fallback", and DecodeErrorID decodes it without an error.
C27_FallbackDecodes ==
    DecodedFallback =>
        /\ DecodeString(last.ret).ok
        /\ HasPrefix(DecodeString(last.ret).bytes, Fallback \o <<Colon>>)
        /\ last.dec.err = "none"
        /\ ~last.dec.nil

\* ------------------------------------------------------------------------
\* C28: generation when a probe fails
\* ------------------------------------------------------------------------

\* one of the probes the generation makes has failed
ProbeFailed(call, env) ==
    \/ ~CallerAvailable(call)
    \/ ~env.gidOk
    \/ ~env.randOk

C29_Distinct ==
    \A i, j \in 1..Len(errs) : i # j => errs[i].ID # errs[j].ID

\* ------------------------------------------------------------------------
\* C30: status codes through the server interceptors
\* ------------------------------------------------------------------------

Interceptors ==
    {"UnaryServerErrorInterceptor", "StreamServerErrorInterceptor"}

\* status.Code of the error the interceptor returned
ReturnedCode == IF st.s = NilStatus THEN OK ELSE st.s.Code

\* the handler's code: OK is the nil error
HandlerCode == IF last.argErr = NilErr THEN OK ELSE last.argErr.s.Code

HandlerBare ==
    \/ last.argErr = NilErr
    \/ /\ last.argErr.kind = "status"
       /\ last.argErr.s.Details = <<>>

KeptCodes ==
    {OK, InvalidArgument, DeadlineExceeded, NotFoundGrpc, PermissionDenied,
     Unauthenticated, ResourceExhausted, Aborted, Unimplemented, Internal,
     Unavailable}

ChangedCodes ==
    {Canceled, UnknownGrpc, AlreadyExists, FailedPrecondition, OutOfRange,
     DataLoss}

\* C30: for a handler error that is a gRPC status with code c and no
\* details, both interceptors return a status with code
\* ToGRPCCode(ToHTTPCode(c)): c itself for the eleven codes of KeptCodes,
\* another code for the six of ChangedCodes; a nil handler error is
\* returned as nil.
C30_Intercepted ==
    (last.op \in Interceptors /\ HandlerBare) =>
        /\ ~last.panic
        /\ ReturnedCode = ToGRPCCode(ToHTTPCode(HandlerCode))
        /\ last.yes = (ReturnedCode = OK)
        /\ HandlerCode \in KeptCodes => ReturnedCode = HandlerCode
        /\ HandlerCode \in ChangedCodes => ReturnedCode # HandlerCode
        /\ last.argErr = NilErr =>
              /\ last.yes
              /\ last.res = 0
              /\ st.s = NilStatus

\* the stream interceptor has turned OutOfRange into InvalidArgument
C30_Witness ==
    /\ last.op = "StreamServerErrorInterceptor"
    /\ HandlerBare
    /\ last.argErr # NilErr
    /\ HandlerCode = OutOfRange
    /\ ReturnedCode = InvalidArgument
    /\ ~last.yes

====
